---- MODULE Spec2Model ----
(***************************************************************************)
(* A model of yoink's clipboard capture / dedup / retention pipeline and   *)
(* of its hotkey-mode paste-on-release state machine.                      *)
(*                                                                         *)
(* Text is a sequence of Unicode code points, bytes are numbers 0..255,    *)
(* the database is the set of rows of its tables, with the column          *)
(* representations the code writes (is_pinned as 0/1, timestamps as the    *)
(* RFC 3339 text that SQLite compares as strings).                         *)
(***************************************************************************)
EXTENDS Integers, Sequences, FiniteSets, TLC

(***************************************************************************)
(* Bounds of the model.                                                    *)
(***************************************************************************)
MaxCaptures == 2      \* item ids the watcher may generate in one run
MaxItems == 3         \* item ids the store's own runs insert
MaxTicks == 4         \* clock readings cleanup_expired may take
MaxSessions == 2      \* hotkey-mode sessions in one run
MaxCalls == 2         \* window and paste commands invoked in one run
MaxListeners == 2     \* listener threads start_quick_switch may spawn

(***************************************************************************)
(* Program constants.                                                      *)
(***************************************************************************)
PollLimit == 100      \* db.enforce_limit(100) in check_clipboard
PreviewChars == 500   \* create_text_preview: take(500), len() > 500
DigestModulus == 8388593
DigestRadix == 251

\* Option<T>: None is the empty sequence, Some(x) the sequence of x alone.
None == <<>>
Some(x) == <<x>>
PANIC == "PANIC"

(***************************************************************************)
(* Sequences of code points and bytes.                                     *)
(***************************************************************************)
Min(a, b) == IF a < b THEN a ELSE b

RECURSIVE Flatten(_)
Flatten(ss) ==
    IF ss = <<>> THEN <<>>
    ELSE IF Len(ss) = 1 THEN ss[1]
    ELSE LET half == Len(ss) \div 2
         IN  Flatten(SubSeq(ss, 1, half))
                 \o Flatten(SubSeq(ss, half + 1, Len(ss)))

StartsWith(s, p) == Len(p) <= Len(s) /\ SubSeq(s, 1, Len(p)) = p

Contains(s, p) ==
    \E i \in 0..(Len(s) - Len(p)) : SubSeq(s, i + 1, i + Len(p)) = p

\* str < str as SQLite's BINARY collation and Rust's Ord compare them:
\* byte-wise, a proper prefix first.
RECURSIVE StrLessFrom(_, _, _)
StrLessFrom(a, b, i) ==
    IF i > Len(b) THEN FALSE
    ELSE IF i > Len(a) THEN TRUE
    ELSE IF a[i] # b[i] THEN a[i] < b[i]
    ELSE StrLessFrom(a, b, i + 1)

StrLess(a, b) == StrLessFrom(a, b, 1)

\* char::encode_utf8
Utf8(cp) ==
    IF cp < 128 THEN <<cp>>
    ELSE IF cp < 2048 THEN <<192 + (cp \div 64), 128 + (cp % 64)>>
    ELSE IF cp < 65536
        THEN <<224 + (cp \div 4096), 128 + ((cp \div 64) % 64), 128 + (cp % 64)>>
    ELSE <<240 + (cp \div 262144), 128 + ((cp \div 4096) % 64),
           128 + ((cp \div 64) % 64), 128 + (cp % 64)>>

\* str::as_bytes
as_bytes(text) == Flatten([i \in 1..Len(text) |-> Utf8(text[i])])

\* str::len: the length in bytes
ByteLen(text) == Len(as_bytes(text))

\* str::is_char_boundary
IsCharBoundary(text, i) ==
    \E k \in 0..Len(text) : ByteLen(SubSeq(text, 1, k)) = i

\* char::is_whitespace (the White_Space property)
IsWhitespace(cp) ==
    cp \in (9..13) \cup {32, 133, 160, 5760} \cup (8192..8202)
           \cup {8232, 8233, 8239, 8287, 12288}

\* char::is_control (general category Cc)
IsControl(cp) == cp \in (0..31) \cup (127..159)

RECURSIVE TrimStart(_)
TrimStart(s) ==
    IF s # <<>> /\ IsWhitespace(Head(s)) THEN TrimStart(Tail(s)) ELSE s

RECURSIVE TrimEnd(_)
TrimEnd(s) ==
    IF s # <<>> /\ IsWhitespace(s[Len(s)])
    THEN TrimEnd(SubSeq(s, 1, Len(s) - 1)) ELSE s

\* str::trim
Trim(s) == TrimEnd(TrimStart(s))

\* str::to_lowercase on ASCII and Latin-1 letters
LowerChar(cp) ==
    IF cp \in 65..90 THEN cp + 32
    ELSE IF cp \in 192..222 /\ cp # 215 THEN cp + 32
    ELSE cp

to_lowercase(s) == [i \in 1..Len(s) |-> LowerChar(s[i])]

\* The decimal digits of a number, as format!("{}") writes them
RECURSIVE Decimal(_)
Decimal(n) ==
    IF n < 10 THEN <<48 + n>> ELSE Decimal(n \div 10) \o <<48 + (n % 10)>>

\* Two decimal digits, zero padded
TwoDigits(n) == <<48 + (n \div 10), 48 + (n % 10)>>

(***************************************************************************)
(* ContentClassifier: clipboard.rs                                         *)
(***************************************************************************)
\* Sha256 over the bytes, "{:x}": modelled as a digest of fixed width that
\* depends on the bytes alone and is collision free on the payloads used.
RECURSIVE DigestFrom(_, _)
DigestFrom(h, bytes) ==
    IF bytes = <<>> THEN h
    ELSE DigestFrom((h * DigestRadix + Head(bytes) + 1) % DigestModulus,
                    Tail(bytes))

compute_hash_bytes(content) == DigestFrom(7, content)

compute_hash(content) == compute_hash_bytes(as_bytes(content))

code_indicators ==
    << <<102,117,110,99,116,105,111,110,32>>,   \* "function "
       <<99,111,110,115,116,32>>,               \* "const "
       <<108,101,116,32>>,                      \* "let "
       <<118,97,114,32>>,                       \* "var "
       <<105,109,112,111,114,116,32>>,          \* "import "
       <<101,120,112,111,114,116,32>>,          \* "export "
       <<99,108,97,115,115,32>>,                \* "class "
       <<100,101,102,32>>,                      \* "def "
       <<102,110,32>>,                          \* "fn "
       <<112,117,98,32>>,                       \* "pub "
       <<97,115,121,110,99,32>>,                \* "async "
       <<97,119,97,105,116,32>>,                \* "await "
       <<114,101,116,117,114,110,32>>,          \* "return "
       <<105,102,32,40>>,                       \* "if ("
       <<102,111,114,32,40>>,                   \* "for ("
       <<119,104,105,108,101,32,40>>,           \* "while ("
       <<61,62>>,                               \* "=>"
       <<45,62>>,                               \* "->"
       <<123,125>>,                             \* "{}"
       <<40,41,59>> >>                          \* "();"

looks_like_code(text) ==
    LET text_lower == to_lowercase(text)
        indicator_count ==
            Cardinality({i \in 1..Len(code_indicators) :
                Contains(text_lower, to_lowercase(code_indicators[i]))})
    IN  indicator_count >= 2

\* &trimmed[1..3] panics unless byte offsets 1 and 3 are char boundaries.
detect_content_type(text) ==
    LET trimmed == Trim(text)
        bytes == as_bytes(trimmed)
    IN  IF StartsWith(trimmed, <<47>>)
        THEN IF \E i \in 1..Len(trimmed) : trimmed[i] = 10
             THEN "files" ELSE "file"
        ELSE IF Len(bytes) > 2
                /\ ~(IsCharBoundary(trimmed, 1) /\ IsCharBoundary(trimmed, 3))
        THEN PANIC
        ELSE IF Len(bytes) > 2 /\ SubSeq(bytes, 2, 3) = <<58, 92>>
        THEN IF \E i \in 1..Len(trimmed) : trimmed[i] = 10
             THEN "files" ELSE "file"
        ELSE IF \/ StartsWith(trimmed, <<104,116,116,112,58,47,47>>)
                \/ StartsWith(trimmed, <<104,116,116,112,115,58,47,47>>)
                \/ StartsWith(trimmed, <<102,116,112,58,47,47>>)
        THEN "url"
        ELSE IF looks_like_code(trimmed) THEN "code"
        ELSE "text"

RECURSIVE FilterControl(_)
FilterControl(s) ==
    IF s = <<>> THEN <<>>
    ELSE IF Len(s) = 1
    THEN IF ~IsControl(s[1]) \/ s[1] = 10 \/ s[1] = 9 THEN s ELSE <<>>
    ELSE LET half == Len(s) \div 2
         IN  FilterControl(SubSeq(s, 1, half))
                 \o FilterControl(SubSeq(s, half + 1, Len(s)))

create_text_preview(text) ==
    LET preview == FilterControl(SubSeq(text, 1, Min(PreviewChars, Len(text))))
    IN  IF ByteLen(text) > PreviewChars THEN preview \o <<46, 46, 46>>
        ELSE preview

\* format!("Image ({}x{})", image.width(), image.height())
image_preview(image) ==
    <<73,109,97,103,101,32,40>> \o Decimal(image.width) \o <<120>>
        \o Decimal(image.height) \o <<41>>

Base64Alphabet ==
    <<65,66,67,68,69,70,71,72,73,74,75,76,77,78,79,80,81,82,83,84,85,86,87,88,
      89,90,97,98,99,100,101,102,103,104,105,106,107,108,109,110,111,112,113,
      114,115,116,117,118,119,120,121,122,48,49,50,51,52,53,54,55,56,57,43,47>>

\* base64 STANDARD.encode: three bytes to four characters, '=' padded
RECURSIVE Base64Encode(_)
Base64Encode(b) ==
    IF b = <<>> THEN <<>>
    ELSE IF Len(b) = 1 THEN
        << Base64Alphabet[(b[1] \div 4) + 1],
           Base64Alphabet[((b[1] % 4) * 16) + 1], 61, 61 >>
    ELSE IF Len(b) = 2 THEN
        << Base64Alphabet[(b[1] \div 4) + 1],
           Base64Alphabet[((b[1] % 4) * 16 + (b[2] \div 16)) + 1],
           Base64Alphabet[((b[2] % 16) * 4) + 1], 61 >>
    ELSE
        << Base64Alphabet[(b[1] \div 4) + 1],
           Base64Alphabet[((b[1] % 4) * 16 + (b[2] \div 16)) + 1],
           Base64Alphabet[((b[2] % 16) * 4 + (b[3] \div 64)) + 1],
           Base64Alphabet[(b[3] % 64) + 1] >>
        \o Base64Encode(SubSeq(b, 4, Len(b)))

\* The base64 alphabet position of a character, -1 when it has none
Base64Index(c) ==
    IF \E i \in 1..64 : Base64Alphabet[i] = c
    THEN (CHOOSE i \in 1..64 : Base64Alphabet[i] = c) - 1
    ELSE -1

\* base64 STANDARD.decode: Some(bytes), or None for an input that is not
\* canonical padded base64
RECURSIVE Base64Decode(_)
Base64Decode(s) ==
    IF s = <<>> THEN Some(<<>>)
    ELSE IF Len(s) < 4 THEN None
    ELSE LET a == Base64Index(s[1])
             b == Base64Index(s[2])
             c == Base64Index(s[3])
             d == Base64Index(s[4])
             rest == SubSeq(s, 5, Len(s))
         IN  IF a < 0 \/ b < 0 THEN None
             ELSE IF s[3] = 61 /\ s[4] = 61
             THEN IF rest = <<>> /\ b % 16 = 0
                  THEN Some(<< a * 4 + (b \div 16) >>)
                  ELSE None
             ELSE IF s[4] = 61
             THEN IF rest = <<>> /\ c >= 0 /\ c % 4 = 0
                  THEN Some(<< a * 4 + (b \div 16),
                               (b % 16) * 16 + (c \div 4) >>)
                  ELSE None
             ELSE IF c < 0 \/ d < 0 THEN None
             ELSE LET r == Base64Decode(rest)
                  IN  IF r = None THEN None
                      ELSE Some(<< a * 4 + (b \div 16),
                                   (b % 16) * 16 + (c \div 4),
                                   (c % 4) * 64 + d >> \o r[1])

(***************************************************************************)
(* Timestamps.  An instant is a number of half seconds after               *)
(* 2024-01-01T00:00:00Z; the database holds DateTime::to_rfc3339 of it     *)
(* (SecondsFormat::AutoSi: no fraction for a whole second, ".500" else)    *)
(* and SQLite orders and compares that text.                               *)
(***************************************************************************)
to_rfc3339(t) ==
    <<50,48,50,52,45,48,49,45,48,49,84,48,48,58>>          \* "2024-01-01T00:"
        \o TwoDigits((t \div 120) % 60) \o <<58>> \o TwoDigits((t \div 2) % 60)
        \o (IF t % 2 = 1 THEN <<46,53,48,48>> ELSE <<>>)   \* ".500"
        \o <<43,48,48,58,48,48>>                           \* "+00:00"


\* DateTime::parse_from_rfc3339 on the text to_rfc3339 writes: the instant
Digit(c) == c - 48

parse_from_rfc3339(s) ==
    ((Digit(s[15]) * 10 + Digit(s[16])) * 60
        + Digit(s[18]) * 10 + Digit(s[19])) * 2
        + (IF s[20] = 46 THEN Digit(s[21]) \div 5 ELSE 0)

(***************************************************************************)
(* State.                                                                  *)
(***************************************************************************)
VARIABLES
    items,          \* table clipboard_items: the set of its rows
    collections,    \* table collections
    tags,           \* table tags
    item_tags,      \* table item_tags
    foreign_keys,   \* whether the SQLite build enforces foreign keys
    last_hash,      \* ClipboardMonitor.last_hash
    clip_text,      \* what clipboard.read_text() returns: None is Err
    clip_image,     \* what clipboard.read_image() returns: None is Err
    now,            \* the last reading of the clock, Utc::now()
    next_uuid,      \* the next fresh Uuid::new_v4()
    settings,       \* SettingsManager.settings
    poll,           \* each check_clipboard invocation: its place and locals
    emitted,        \* the "clipboard-changed" events emitted, in order
    hotkey_active,  \* HotkeyModeState.is_active
    selected_item,  \* SelectedItemState.id
    registered,     \* HotkeyManager.current_shortcut is Some
    keys,           \* the physical keys that are down
    loop,           \* the modifier polling thread: its place and locals
    main,           \* the main thread: the command it is running
    hide_tasks,     \* spawned hide_window tasks that have not run yet
    recent,         \* history: the last poll that returned since the clipboard changed
    lastOp,         \* history: the store operation that took the last step
    hk,             \* history: hotkey sessions, cancels and spawned tasks
    panel_visible,  \* the panel is on screen: panel.is_visible()
    panel_key,      \* the panel is the key window
    is_hiding,      \* PanelHideGuard.is_hiding
    frontmost,      \* NSWorkspace frontmostApplication, None when there is none
    previous_app,   \* window::PreviousAppState.app
    bundle_id,      \* paste_helper::PreviousAppState.bundle_id
    main_queue,     \* the main thread's run loop: closures and window events
    tasks,          \* the async tasks running window and paste commands
    ph,             \* history: captures, activations and events of the panel
    im              \* InputMonitor: its flags, its listener threads, its events

tableVars == <<collections, tags, item_tags, foreign_keys>>

watcherVars == <<last_hash, clip_text, clip_image, next_uuid, settings, poll,
                 emitted, recent>>

hotkeyVars == <<hotkey_active, selected_item, registered, keys, loop, main,
                hide_tasks, hk>>

panelVars == <<panel_visible, panel_key, is_hiding, frontmost, previous_app,
               bundle_id, main_queue, tasks, ph, im>>

vars == <<items, now, lastOp, tableVars, watcherVars, hotkeyVars, panelVars>>

(***************************************************************************)
(* The inputs of the model.                                                *)
(***************************************************************************)
Pollers == {1, 2}

StartTime == PollLimit

\* "abcd", "b", and a text whose first character takes two bytes: "(e-acute)a"
Texts == {<<>>, <<97, 98, 99, 100>>, <<98>>, <<233, 97>>}

\* a 1x1 image whose RGBA bytes are those of "abcd"
Images == {[width |-> 1, height |-> 1, rgba |-> <<97, 98, 99, 100>>]}

\* The payloads of the runs that start from a full store
FewTexts == {<<97, 98, 99, 100>>, <<98>>}

HistoryLimits == {PollLimit, PollLimit + 50}

\* The item ids the user's commands name: the first captured item and an id
\* that never exists; from a full store, the oldest stored item is pinned and
\* unpinned and the first captured one is deleted; the ids of the runs over
\* every operation of the store.
OpIds == {0, 1}
OldestId == -PollLimit
DbIds == {1, 2}

\* The applications: this utility and another one, by bundle identifier
Yoink == "com.yoink.app"
OtherApp == "com.apple.Safari"

\* A third application, the bundle identifiers as text, and the lists
\* excludedApps is set to: empty, or the one entry "SAFARI"
Terminal == "com.apple.Terminal"

BundleChars(app) ==
    IF app = OtherApp
    THEN <<99,111,109,46,97,112,112,108,101,46,83,97,102,97,114,105>>
    ELSE IF app = Terminal
    THEN <<99,111,109,46,97,112,112,108,101,46,84,101,114,109,105,110,97,108>>
    ELSE <<99,111,109,46,121,111,105,110,107,46,97,112,112>>

ExcludedLists == {<<>>, <<<<83, 65, 70, 65, 82, 73>>>>}

\* The async tasks that can be in flight together
Tasks == {1, 2}

\* The ids paste_item is given: a text item, an image item, no item
PasteIds == {1, 2, 3}

\* The store's own runs: the ids of the items inserted, the instants they
\* are created at (half a second apart), the caps enforce_limit is given
ItemIds == 1..MaxItems
CreatedTimes == {StartTime, StartTime + 1}
Limits == 0..(MaxItems - 1)

\* The items that are listed, and what get_items is asked for: the page
\* sizes and offsets, a search for "1" or none, and the collection or none
ListIds == {1, 2, 3}
PageSizes == {1, 3}
Offsets == {0, 1}
Searches == {None, Some(<<49>>)}
CollectionFilters == {None, Some("c1")}

\* The collections items are filed in and taken from
ShelfIds == {"c1", "c2"}

\* One collection, one tag, and the item that is filed, tagged and given an
\* expiry, which passes while the clock runs
CollectionIds == {"c1"}
CollectionNames == {"Work", "Home"}
TagIds == {"t1"}
FiledIds == {1}
ExpiryTime == StartTime + 3
Expirations == {None, Some(ExpiryTime)}

(***************************************************************************)
(* HistoryStore: database.rs                                               *)
(***************************************************************************)
\* The row insert_item writes for a ClipboardItem
ItemRow(item) ==
    [id |-> item.id, content_type |-> item.content_type,
     content |-> item.content, preview |-> item.preview, hash |-> item.hash,
     is_pinned |-> IF item.is_pinned THEN 1 ELSE 0,
     collection_id |-> item.collection_id,
     created_at |-> to_rfc3339(item.created_at),
     expires_at |-> IF item.expires_at = None THEN None
                    ELSE Some(to_rfc3339(item.expires_at[1]))]

Ids(rows) == {r.id : r \in rows}
Pinned(rows) == {r \in rows : r.is_pinned = 1}
Unpinned(rows) == {r \in rows : r.is_pinned = 0}

\* is_pinned as get_item reads it back: row.get::<_, i32>(5)? != 0
IsPinned(r) == r.is_pinned # 0

\* INSERT INTO clipboard_items: id is the primary key
insert_item(rows, item) ==
    IF item.id \in Ids(rows) THEN [ok |-> FALSE, rows |-> rows]
    ELSE [ok |-> TRUE, rows |-> rows \cup {ItemRow(item)}]

\* ORDER BY created_at ASC in place of DESC: the hash of an oldest row
get_first_hash(rows) ==
    IF rows = {} THEN {None}
    ELSE {Some(r.hash) : r \in {x \in rows :
                \A y \in rows : ~StrLess(y.created_at, x.created_at)}}

\* SELECT hash ... ORDER BY created_at DESC LIMIT 1, .ok(): the values the
\* query may return (any of the rows that share the greatest created_at)
get_last_hash(rows) ==
    IF rows = {} THEN {None}
    ELSE {Some(r.hash) : r \in {x \in rows :
                \A y \in rows : ~StrLess(x.created_at, y.created_at)}}

\* database.rs 270-309: get_item
get_item(rows, id) ==
    IF \E r \in rows : r.id = id
    THEN Some(CHOOSE r \in rows : r.id = id)
    ELSE None

delete_item(rows, id) == {r \in rows : r.id # id}

pin_item(rows, id) ==
    {IF r.id = id THEN [r EXCEPT !.is_pinned = 1] ELSE r : r \in rows}

unpin_item(rows, id) ==
    {IF r.id = id THEN [r EXCEPT !.is_pinned = 0] ELSE r : r \in rows}

\* A clear_history that spares nothing
clear_history_all(rows) == {}

\* DELETE FROM clipboard_items WHERE is_pinned = 0
clear_history(rows) == {r \in rows : ~(r.is_pinned = 0)}

\* ORDER BY created_at ASC in place of DESC: the greatest created_at
NewestCreated(rows) ==
    CHOOSE m \in {r.created_at : r \in rows} :
        \A r \in rows : ~StrLess(m, r.created_at)

\* The least created_at text among rows
OldestCreated(rows) ==
    CHOOSE m \in {r.created_at : r \in rows} :
        \A r \in rows : ~StrLess(r.created_at, m)

\* The sets of k rows that can come last in ORDER BY created_at DESC (rows
\* of equal created_at come in an order SQLite is free to choose)
RECURSIVE OldestSets(_, _)
OldestSets(rows, k) ==
    IF k = 0 THEN {{}}
    ELSE LET m == OldestCreated(rows)
         IN  UNION {{{r} \cup D : D \in OldestSets(rows \ {r}, k - 1)} :
                        r \in {x \in rows : x.created_at = m}}

\* SELECT id ... WHERE is_pinned = 0 ORDER BY created_at DESC LIMIT ?1: the
\* sets of rows the subquery may return
NewestUnpinned(rows, limit) ==
    LET U == Unpinned(rows)
    IN  IF Cardinality(U) <= limit THEN {U}
        ELSE {U \ D : D \in OldestSets(U, Cardinality(U) - limit)}

\* An enforce_limit whose id list leaves out the pinned rows
enforce_limit_unpinned_only(rows, limit) ==
    {{r \in rows : r.id \in Ids(keep)} : keep \in NewestUnpinned(rows, limit)}

\* DELETE ... WHERE id NOT IN (pinned ids UNION ALL newest unpinned ids): the
\* tables the statement may leave
enforce_limit(rows, limit) ==
    {{r \in rows : r.id \in Ids(Pinned(rows)) \cup Ids(keep)} :
        keep \in NewestUnpinned(rows, limit)}

\* A cleanup that also deletes what expires at the instant read
cleanup_expired_inclusive(rows, now_text) ==
    {r \in rows : ~(r.expires_at # None /\ ~StrLess(now_text, r.expires_at[1]))}

\* DELETE ... WHERE expires_at IS NOT NULL AND expires_at < ?1
cleanup_expired(rows, now_text) ==
    {r \in rows : ~(r.expires_at # None /\ StrLess(r.expires_at[1], now_text))}

\* UPDATE clipboard_items SET collection_id = ?1 WHERE id = ?2
move_item_to_collection(rows, item_id, collection_id) ==
    {IF r.id = item_id THEN [r EXCEPT !.collection_id = collection_id] ELSE r :
        r \in rows}

\* UPDATE clipboard_items SET expires_at = ?1 WHERE id = ?2
set_item_expiration(rows, item_id, expires_at) ==
    {IF r.id = item_id
     THEN [r EXCEPT !.expires_at = IF expires_at = None THEN None
                                   ELSE Some(to_rfc3339(expires_at[1]))]
     ELSE r : r \in rows}

\* An UPDATE without its WHERE clause
unfile_all_items(rows, collection_id) ==
    {[r EXCEPT !.collection_id = None] : r \in rows}

\* UPDATE clipboard_items SET collection_id = NULL WHERE collection_id = ?1
unfile_items(rows, collection_id) ==
    {IF r.collection_id = Some(collection_id)
     THEN [r EXCEPT !.collection_id = None] ELSE r : r \in rows}

\* The row as get_items and get_item hand it back (database.rs 173-191):
\* is_pinned read as != 0 and created_at parsed from its text
FromRow(r) ==
    [id |-> r.id, content_type |-> r.content_type, content |-> r.content,
     preview |-> r.preview, hash |-> r.hash, is_pinned |-> r.is_pinned # 0,
     collection_id |-> r.collection_id,
     created_at |-> parse_from_rfc3339(r.created_at),
     expires_at |-> IF r.expires_at = None THEN None
                    ELSE Some(parse_from_rfc3339(r.expires_at[1]))]

\* text LIKE '%s%' for an s without wildcards: SQLite's LIKE ignores the
\* case of the ASCII letters only
AsciiLower(s) == [i \in 1..Len(s) |-> IF s[i] \in 65..90 THEN s[i] + 32 ELSE s[i]]

Like(text, s) == Contains(AsciiLower(text), AsciiLower(s))

\* An ordering by created_at alone
ByCreatedAtOnly(a, b) == ~StrLess(a.created_at, b.created_at)

\* ORDER BY is_pinned DESC, created_at DESC: row a may come before row b
OrderBy(a, b) ==
    \/ a.is_pinned > b.is_pinned
    \/ a.is_pinned = b.is_pinned /\ ~StrLess(a.created_at, b.created_at)

\* database.rs 135-198: the lists get_items may return (rows that compare
\* equal come in an order SQLite is free to choose)
get_items(rows, limit, offset, search, collection_id) ==
    LET M == {r \in rows :
                /\ search = None \/ Like(r.content, search[1])
                                 \/ Like(r.preview, search[1])
                /\ collection_id = None
                     \/ r.collection_id = Some(collection_id[1])}
        n == Cardinality(M)
        sorted == {q \in [1..n -> M] :
                     /\ \A i, j \in 1..n : i # j => q[i] # q[j]
                     /\ \A i, j \in 1..n : i < j => OrderBy(q[i], q[j])}
    IN  {[k \in 1..(Min(n, offset + limit) - Min(n, offset)) |->
              FromRow(q[offset + k])] : q \in sorted}

\* Foreign keys that cascade nothing
NoCascade(links, rows) == links

\* item_tags.item_id REFERENCES clipboard_items(id) ON DELETE CASCADE: the
\* associations left when the items table becomes rows
OnDeleteCascade(links, rows) ==
    IF foreign_keys THEN {l \in links : l.item_id \in Ids(rows)} ELSE links

\* The items a database holds at startup after long use: PollLimit unpinned
\* text items, one captured every half second, the newest last.
StoredItem(k) ==
    [id |-> -k, content_type |-> "text", content |-> <<1000 + k>>,
     preview |-> <<1000 + k>>, hash |-> compute_hash(<<1000 + k>>),
     is_pinned |-> FALSE, collection_id |-> None,
     created_at |-> StartTime - k, expires_at |-> None]

FullStore == {ItemRow(StoredItem(k)) : k \in 1..PollLimit}

(***************************************************************************)
(* ClipboardWatcher: check_clipboard, clipboard.rs.  One invocation takes  *)
(* its steps at the places where it reads or writes shared state.          *)
(***************************************************************************)
Idle == [pc |-> "idle", path |-> "text", hash |-> 0, item |-> None,
         fresh |-> FALSE, ins |-> 0, payload |-> FALSE, pasted |-> None]

Op(name, arg, ok, removed) ==
    [op |-> name, arg |-> arg, ok |-> ok, removed |-> removed]

\* Utc::now(): every reading is later than the one before
ClockReading == now + 1

\* The invocation returns: res is "None", "Some", "Err" or "Panic"
Return(pl, p, res, ev) ==
    /\ poll' = [pl EXCEPT ![p] = Idle]
    /\ recent' = <<[res |-> res, fresh |-> pl[p].fresh, ins |-> pl[p].ins,
                     ev |-> ev, payload |-> pl[p].payload]>>
    /\ lastOp' = Op("check_clipboard", 0, res \in {"None", "Some"}, 0)

\* A check_clipboard that looks at the image first
PollReadImageFirst(p) ==
    /\ poll[p].pc = "idle"
    /\ next_uuid <= MaxCaptures
    /\ poll' = [poll EXCEPT ![p] = [Idle EXCEPT !.pc = "read_image",
                                                !.pasted = ph.pasted]]
    /\ ph' = [ph EXCEPT !.pasted = None]
    /\ lastOp' = Op("check_clipboard", 0, TRUE, 0)
    /\ UNCHANGED <<items, last_hash, clip_text, clip_image, now, next_uuid,
                   settings, emitted, recent, tableVars, hotkeyVars,
                   panel_visible, panel_key, is_hiding, frontmost,
                   previous_app, bundle_id, main_queue, tasks, im>>

\* lines 35-40: clipboard.read_text(), text.is_empty(), compute_hash.
\* History: pasted is the hash of the item paste_item wrote since the last
\* check_clipboard began, if any
PollReadText(p) ==
    /\ poll[p].pc = "idle"
    /\ next_uuid <= MaxCaptures
    /\ IF clip_text # None /\ clip_text[1] # <<>>
       THEN poll' = [poll EXCEPT ![p] = [Idle EXCEPT !.pc = "check",
                        !.path = "text", !.payload = TRUE,
                        !.hash = compute_hash(clip_text[1]),
                        !.item = Some([content |-> clip_text[1]]),
                        !.pasted = ph.pasted]]
       ELSE poll' = [poll EXCEPT ![p] = [Idle EXCEPT !.pc = "read_image",
                                                    !.pasted = ph.pasted]]
    /\ ph' = [ph EXCEPT !.pasted = None]
    /\ lastOp' = Op("check_clipboard", 0, TRUE, 0)
    /\ UNCHANGED <<items, last_hash, clip_text, clip_image, now, next_uuid,
                   settings, emitted, recent, tableVars, hotkeyVars,
                   panel_visible, panel_key, is_hiding, frontmost,
                   previous_app, bundle_id, main_queue, tasks, im>>

\* lines 78-81: clipboard.read_image(), rgba.is_empty(), compute_hash_bytes
PollReadImage(p) ==
    /\ poll[p].pc = "read_image"
    /\ IF clip_image # None /\ clip_image[1].rgba # <<>>
       THEN /\ poll' = [poll EXCEPT ![p] = [@ EXCEPT !.pc = "check",
                        !.path = "image", !.payload = TRUE,
                        !.hash = compute_hash_bytes(clip_image[1].rgba),
                        !.item = Some([image |-> clip_image[1]])]]
            /\ lastOp' = Op("check_clipboard", 0, TRUE, 0)
            /\ UNCHANGED recent
       ELSE Return(poll, p, "None", 0)
    /\ UNCHANGED <<items, last_hash, clip_text, clip_image, now, next_uuid,
                   settings, emitted, tableVars, hotkeyVars, panelVars>>

\* lines 50-62 and 90-102: the ClipboardItem the invocation builds
NewItem(path, src, hash, id, t) ==
    IF path = "text"
    THEN [id |-> id, content_type |-> detect_content_type(src.content),
          content |-> src.content, preview |-> create_text_preview(src.content),
          hash |-> hash, is_pinned |-> FALSE, collection_id |-> None,
          created_at |-> t, expires_at |-> None]
    ELSE [id |-> id, content_type |-> "image",
          content |-> Base64Encode(src.image.rgba),
          preview |-> image_preview(src.image),
          hash |-> hash, is_pinned |-> FALSE, collection_id |-> None,
          created_at |-> t, expires_at |-> None]

\* A dedup test that looks for the hash among the stored items
SameAsStored(last, hash) == \E r \in items : r.hash = hash

\* The dedup test of lines 43-48 and 83-88, under the last_hash lock
SameAsLast(last, hash) == last = Some(hash)

\* lines 43-62 and 83-102: the dedup check, then the item is built
PollCheck(p) ==
    /\ poll[p].pc = "check"
    /\ IF SameAsLast(last_hash, poll[p].hash)
       THEN /\ Return(poll, p, "None", 0)
            /\ UNCHANGED <<now, next_uuid>>
       ELSE LET item == NewItem(poll[p].path, poll[p].item[1], poll[p].hash,
                                next_uuid, ClockReading)
            IN  /\ next_uuid' = next_uuid + 1
                /\ IF item.content_type = PANIC
                   THEN /\ Return([poll EXCEPT ![p].fresh = TRUE], p, "Panic", 0)
                        /\ UNCHANGED now
                   ELSE /\ now' = ClockReading
                        /\ poll' = [poll EXCEPT ![p] = [@ EXCEPT
                              !.pc = "insert", !.fresh = TRUE,
                              !.item = Some(item)]]
                        /\ lastOp' = Op("check_clipboard", 0, TRUE, 0)
                        /\ UNCHANGED recent
    /\ UNCHANGED <<items, last_hash, clip_text, clip_image, settings, emitted,
                   tableVars, hotkeyVars, panelVars>>

\* A check_clipboard that stores the hash before it inserts the item
PollInsertHashFirst(p) ==
    /\ poll[p].pc = "insert"
    /\ last_hash' = Some(poll[p].hash)
    /\ \E io_ok \in BOOLEAN :
         LET r == insert_item(items, poll[p].item[1])
         IN  IF io_ok /\ r.ok
             THEN /\ items' = r.rows
                  /\ poll' = [poll EXCEPT ![p] = [@ EXCEPT !.pc = "enforce",
                                                            !.ins = 1]]
                  /\ lastOp' = Op("check_clipboard", 0, TRUE, 0)
                  /\ UNCHANGED recent
             ELSE /\ Return(poll, p, "Err", 0)
                  /\ UNCHANGED items
    /\ UNCHANGED <<clip_text, clip_image, now, next_uuid, settings, emitted,
                   tableVars, hotkeyVars, panelVars>>

\* lines 65 and 104: db.insert_item(&item)?
PollInsert(p) ==
    /\ poll[p].pc = "insert"
    /\ \E io_ok \in BOOLEAN :
         LET r == insert_item(items, poll[p].item[1])
         IN  IF io_ok /\ r.ok
             THEN /\ items' = r.rows
                  /\ poll' = [poll EXCEPT ![p] = [@ EXCEPT !.pc = "enforce",
                                                            !.ins = 1]]
                  /\ lastOp' = Op("check_clipboard", 0, TRUE, 0)
                  /\ UNCHANGED recent
             ELSE /\ Return(poll, p, "Err", 0)
                  /\ UNCHANGED items
    /\ UNCHANGED <<last_hash, clip_text, clip_image, now, next_uuid, settings,
                   emitted, tableVars, hotkeyVars, panelVars>>

\* A check_clipboard that passes the configured history limit
CaptureLimitFromSettings == settings.history_limit

\* The cap check_clipboard passes to enforce_limit
CaptureLimit == PollLimit

\* lines 66 and 105: db.enforce_limit(100)?
PollEnforce(p) ==
    /\ poll[p].pc = "enforce"
    /\ \E io_ok \in BOOLEAN :
         IF io_ok
         THEN /\ items' \in enforce_limit(items, CaptureLimit)
              /\ item_tags' = OnDeleteCascade(item_tags, items')
              /\ poll' = [poll EXCEPT ![p] = [@ EXCEPT !.pc = "set_hash"]]
              /\ lastOp' = Op("check_clipboard", 0, TRUE, 0)
              /\ UNCHANGED recent
         ELSE /\ Return(poll, p, "Err", 0)
              /\ UNCHANGED <<items, item_tags>>
    /\ UNCHANGED <<last_hash, clip_text, clip_image, now, next_uuid, settings,
                   emitted, collections, tags, foreign_keys, hotkeyVars,
                   panelVars>>

\* lines 68 and 107: *monitor.last_hash.lock().unwrap() = Some(hash)
PollSetHash(p) ==
    /\ poll[p].pc = "set_hash"
    /\ last_hash' = Some(poll[p].hash)
    /\ poll' = [poll EXCEPT ![p] = [@ EXCEPT !.pc = "emit"]]
    /\ lastOp' = Op("check_clipboard", 0, TRUE, 0)
    /\ UNCHANGED <<items, clip_text, clip_image, now, next_uuid, settings,
                   emitted, recent, tableVars, hotkeyVars, panelVars>>

\* lines 71-73 and 108-110: app.emit("clipboard-changed", &item); Ok(Some(item))
PollEmit(p) ==
    /\ poll[p].pc = "emit"
    /\ emitted' = Append(emitted, poll[p].item[1].id)
    /\ Return(poll, p, "Some", 1)
    /\ UNCHANGED <<items, last_hash, clip_text, clip_image, now, next_uuid,
                   settings, tableVars, hotkeyVars, panelVars>>

PollStep(p) ==
    \/ PollReadImage(p)
    \/ PollCheck(p)
    \/ PollInsert(p)
    \/ PollEnforce(p)
    \/ PollSetHash(p)
    \/ PollEmit(p)

(***************************************************************************)
(* The environment and the user's commands.                                *)
(***************************************************************************)
\* Another application puts new content on the system clipboard
SetClipboard(texts, images) ==
    /\ \E t \in {None} \cup {Some(x) : x \in texts},
          i \in {None} \cup {Some(x) : x \in images} :
         /\ <<t, i>> # <<clip_text, clip_image>>
         /\ clip_text' = t
         /\ clip_image' = i
    /\ recent' = <<>>
    /\ lastOp' = Op("set_clipboard", 0, TRUE, 0)
    /\ UNCHANGED <<items, last_hash, now, next_uuid, settings, poll, emitted,
                   tableVars, hotkeyVars, panelVars>>

\* lib.rs 66-77, clipboard.rs 21-25: the application is quit and started
\* again; ClipboardMonitor::new, then init_last_hash reads the database.  The
\* history notes the start and the store it found.
Restart ==
    /\ last_hash' \in get_last_hash(items)
    /\ recent' = <<[res |-> "Restart", fresh |-> FALSE, ins |-> 0, ev |-> 0,
                     payload |-> FALSE, store |-> items]>>
    /\ lastOp' = Op("restart", 0, TRUE, 0)
    /\ UNCHANGED <<items, clip_text, clip_image, now, next_uuid, settings,
                   poll, emitted, tableVars, hotkeyVars, panelVars>>

\* A command that runs one statement on clipboard_items: it fails without
\* effect or leaves the table as the statement does
DbCommand(name, arg, rows) ==
    /\ \E io_ok \in BOOLEAN :
         /\ items' = (IF io_ok THEN rows ELSE items)
         /\ lastOp' = Op(name, arg, io_ok,
                         IF io_ok THEN Cardinality(Ids(items) \ Ids(rows))
                         ELSE 0)
    /\ item_tags' = OnDeleteCascade(item_tags, items')
    /\ UNCHANGED <<now, collections, tags, foreign_keys, watcherVars,
                   hotkeyVars, panelVars>>

\* clipboard.rs 231-236, database.rs 240-244
DeleteItem(id) == DbCommand("delete_item", id, delete_item(items, id))

\* clipboard.rs 239-241, database.rs 246-253
PinItem(id) == DbCommand("pin_item", id, pin_item(items, id))

\* clipboard.rs 244-246, database.rs 255-262
UnpinItem(id) == DbCommand("unpin_item", id, unpin_item(items, id))

\* clipboard.rs 249-251, database.rs 264-268
ClearHistory == DbCommand("clear_history", 0, clear_history(items))

\* database.rs 311-333, called with the cap n
EnforceLimit(n) ==
    \E rows \in enforce_limit(items, n) : DbCommand("enforce_limit", n, rows)

\* database.rs 413-422
MoveItemToCollection(id, c) ==
    DbCommand("move_item_to_collection", id,
              move_item_to_collection(items, id, c))

\* database.rs 424-433
SetItemExpiration(id, e) ==
    DbCommand("set_item_expiration", id, set_item_expiration(items, id, e))

\* The item a caller hands to Database::insert_item
ApiItem(id, t) ==
    [id |-> id, content_type |-> "text", content |-> <<48 + id>>,
     preview |-> <<48 + id>>, hash |-> compute_hash(<<48 + id>>),
     is_pinned |-> FALSE, collection_id |-> None,
     created_at |-> t, expires_at |-> None]

\* database.rs 97-119
InsertItem(id, t) ==
    LET r == insert_item(items, ApiItem(id, t))
    IN  /\ \E io_ok \in BOOLEAN :
             /\ items' = (IF io_ok /\ r.ok THEN r.rows ELSE items)
             /\ lastOp' = Op("insert_item", id, io_ok /\ r.ok, 0)
        /\ UNCHANGED <<now, tableVars, watcherVars, hotkeyVars, panelVars>>

\* clipboard.rs 205-222, database.rs 135-198: get_items reads the table
GetItems(limit, offset, search, collection_id) ==
    /\ \E io_ok \in BOOLEAN :
         \E list \in get_items(items, limit, offset, search, collection_id) :
            lastOp' = Op("get_items",
                         [limit |-> limit, offset |-> offset,
                          search |-> search, collection_id |-> collection_id],
                         io_ok, IF io_ok THEN list ELSE <<>>)
    /\ UNCHANGED <<items, now, tableVars, watcherVars, hotkeyVars, panelVars>>

\* database.rs 335-346: the clock is read, the expired rows are deleted
CleanupExpired ==
    /\ now < StartTime + MaxTicks
    /\ now' = ClockReading
    /\ \E io_ok \in BOOLEAN :
         LET rows == cleanup_expired(items, to_rfc3339(ClockReading))
         IN  /\ items' = (IF io_ok THEN rows ELSE items)
             /\ lastOp' = Op("cleanup_expired", 0, io_ok,
                             IF io_ok THEN Cardinality(Ids(items) \ Ids(rows))
                             ELSE 0)
    /\ item_tags' = OnDeleteCascade(item_tags, items')
    /\ UNCHANGED <<collections, tags, foreign_keys, watcherVars, hotkeyVars, panelVars>>

\* A command that leaves clipboard_items alone
OtherCommand(name, ok) ==
    /\ lastOp' = Op(name, 0, ok, 0)
    /\ UNCHANGED <<items, now, foreign_keys, watcherVars, hotkeyVars, panelVars>>

\* collections.rs 5-21, database.rs 349-363: a fresh id, INSERT
CreateCollection(c, name) ==
    /\ c \notin {x.id : x \in collections}
    /\ \E io_ok \in BOOLEAN :
         /\ collections' = (IF io_ok
                            THEN collections \cup {[id |-> c, name |-> name]}
                            ELSE collections)
         /\ OtherCommand("create_collection", io_ok)
    /\ UNCHANGED <<tags, item_tags>>

\* database.rs 402-411
UpdateCollection(c, name) ==
    /\ \E io_ok \in BOOLEAN :
         /\ collections' = (IF io_ok
                            THEN {IF x.id = c THEN [x EXCEPT !.name = name]
                                  ELSE x : x \in collections}
                            ELSE collections)
         /\ OtherCommand("update_collection", io_ok)
    /\ UNCHANGED <<tags, item_tags>>

\* database.rs 388-400: two statements, each of which may fail
DeleteCollection(c) ==
    /\ \E done \in 0..2 :
         /\ items' = (IF done >= 1 THEN unfile_items(items, c) ELSE items)
         /\ collections' = (IF done = 2 THEN {x \in collections : x.id # c}
                            ELSE collections)
         /\ lastOp' = Op("delete_collection", c, done = 2,
                         Cardinality({r \in items : r.collection_id = Some(c)}))
    /\ UNCHANGED <<now, tags, item_tags, foreign_keys, watcherVars, hotkeyVars, panelVars>>

\* collections.rs 46-56, database.rs 436-445: INSERT OR IGNORE INTO tags
CreateTag(t) ==
    /\ \E io_ok \in BOOLEAN :
         /\ tags' = (IF io_ok /\ t \notin {x.id : x \in tags}
                     THEN tags \cup {[id |-> t, name |-> t]} ELSE tags)
         /\ OtherCommand("create_tag", io_ok)
    /\ UNCHANGED <<collections, item_tags>>

\* What a statement on item_tags reports: the pair it was given and the kind
\* of error it met, "none", "io" or "constraint"
TagOp(name, id, t, io_ok, ok, changed) ==
    Op(name,
       [item_id |-> id, tag_id |-> t,
        error |-> IF ~io_ok THEN "io" ELSE IF ~ok THEN "constraint" ELSE "none"],
       ok, changed)

\* An add_tag_to_item with a plain INSERT: the primary key rejects the pair
\* that is already there
AddTagToItemPlain(id, t) ==
    /\ \E io_ok \in BOOLEAN :
         LET pair == [item_id |-> id, tag_id |-> t]
             met == id \in Ids(items) /\ t \in {x.id : x \in tags}
             ok == io_ok /\ (foreign_keys => met) /\ pair \notin item_tags
         IN  /\ item_tags' = (IF ok THEN item_tags \cup {pair} ELSE item_tags)
             /\ lastOp' = TagOp("add_tag_to_item", id, t, io_ok, ok,
                                IF ok THEN 1 ELSE 0)
    /\ UNCHANGED <<items, now, collections, tags, foreign_keys, watcherVars,
                   hotkeyVars, panelVars>>

\* database.rs 464-473: INSERT OR IGNORE INTO item_tags; the pair that is
\* already there is skipped, a foreign key that is enforced and not met is an
\* error (IGNORE does not cover foreign keys)
AddTagToItem(id, t) ==
    /\ \E io_ok \in BOOLEAN :
         LET pair == [item_id |-> id, tag_id |-> t]
             met == id \in Ids(items) /\ t \in {x.id : x \in tags}
             ok == io_ok /\ (foreign_keys => met)
         IN  /\ item_tags' = (IF ok THEN item_tags \cup {pair} ELSE item_tags)
             /\ lastOp' = TagOp("add_tag_to_item", id, t, io_ok, ok,
                                IF ok /\ pair \notin item_tags THEN 1 ELSE 0)
    /\ UNCHANGED <<items, now, collections, tags, foreign_keys, watcherVars,
                   hotkeyVars, panelVars>>

\* database.rs 475-484: DELETE FROM item_tags WHERE item_id = ?1 AND
\* tag_id = ?2
RemoveTagFromItem(id, t) ==
    /\ \E io_ok \in BOOLEAN :
         LET pair == [item_id |-> id, tag_id |-> t]
         IN  /\ item_tags' = (IF io_ok THEN item_tags \ {pair} ELSE item_tags)
             /\ lastOp' = TagOp("remove_tag_from_item", id, t, io_ok, io_ok,
                                IF io_ok /\ pair \in item_tags THEN 1 ELSE 0)
    /\ UNCHANGED <<items, now, collections, tags, foreign_keys, watcherVars,
                   hotkeyVars, panelVars>>

\* settings.rs 147-152: update_settings
UpdateSettings ==
    /\ \E h \in HistoryLimits \ {settings.history_limit} :
         settings' = [settings EXCEPT !.history_limit = h]
    /\ lastOp' = Op("update_settings", 0, TRUE, 0)
    /\ UNCHANGED <<items, last_hash, clip_text, clip_image, now, next_uuid,
                   poll, emitted, recent, tableVars, hotkeyVars, panelVars>>

(***************************************************************************)
(* HotkeyModeController: the modifier polling thread of lib.rs 98-254, the *)
(* commands of window.rs 559-576 and the hide_window tasks.  The thread    *)
(* takes a step at each read or write of shared state.                     *)
(***************************************************************************)
LoopStart == [pc |-> "sleep", was_active |-> FALSE, v_was_pressed |-> FALSE,
              session |-> 0, cancels |-> 0]

MainIdle == [pc |-> "idle", cancels |-> 0]

NoKeys == [cmd |-> FALSE, shift |-> FALSE, esc |-> FALSE, v |-> FALSE]

\* History of the hotkey sessions; cycles is the parity of the hotkey-cycle
\* signals emitted, v_tick what the previous tick read of the V key ("idle"
\* when that tick found the mode Idle and read no key), exited the session
\* in which a thread called exit() on its way to take() (-1 when it is not
\* on that way), held the number of shortcut registrations the system holds
\* for the application, refused that the last call of register returned Err
NoSessions == [session |-> 0, unreleased |-> FALSE, cancelled |-> {},
               spawned |-> <<>>, cycles |-> 0, selected_in |-> 0,
               v_tick |-> "idle", exited |-> [loop |-> -1, main |-> -1],
               held |-> 1, refused |-> FALSE]

\* flags & MASK_COMMAND != 0 or flags & MASK_SHIFT != 0
ModsHeld(k) == k.cmd \/ k.shift

\* The sessions a cancel has ended while the modifiers were still held
CancelledSessions == {c.session : c \in hk.cancelled}

\* History: a cancel of session s has been processed
Cancelled(s) ==
    IF s = 0 THEN hk
    ELSE [hk EXCEPT !.cancelled = @ \cup
            {[session |-> s,
              mode_idle |-> ~(hotkey_active /\ hk.session = s),
              slot_empty |-> selected_item' = None]}]

\* History: `who` has called exit(), has called take()
Exited(h, who) == [h EXCEPT !.exited[who] = hk.session]

Taken(h, who) == [h EXCEPT !.exited[who] = -1]

\* History: the loop has taken the slot and spawned a task
Spawned(h, kind, origin, item) ==
    [h EXCEPT !.selected_in = 0,
              !.spawned = Append(@,
        [kind |-> kind, origin |-> origin, session |-> loop.session,
         item |-> item, after_cancel |-> loop.session \in CancelledSessions,
         selected_in |-> h.selected_in])]

\* The user presses or releases a key
KeyChange(k) ==
    /\ keys' = [keys EXCEPT ![k] = ~@]
    /\ hk' = [hk EXCEPT !.unreleased = @ /\ hotkey_active /\ ModsHeld(keys')]
    /\ UNCHANGED <<items, now, lastOp, tableVars, watcherVars, hotkey_active,
                   selected_item, registered, loop, main, hide_tasks,
                   panelVars>>

\* window.rs 559-561: enter_hotkey_mode; a new session begins when the mode
\* was Idle
EnterHotkeyMode ==
    /\ main.pc = "idle"
    /\ hotkey_active \/ hk.session < MaxSessions
    /\ hotkey_active' = TRUE
    /\ hk' = (IF hotkey_active THEN hk
              ELSE [hk EXCEPT !.session = @ + 1, !.unreleased = ModsHeld(keys)])
    /\ UNCHANGED <<items, now, lastOp, tableVars, watcherVars, selected_item,
                   registered, keys, loop, main, hide_tasks, panelVars>>

\* An exit_hotkey_mode that goes to take() without calling exit()
ExitHotkeyModeNoExit ==
    /\ main.pc = "idle"
    /\ main' = [pc |-> "take",
                cancels |-> IF hotkey_active /\ hk.unreleased
                            THEN hk.session ELSE 0]
    /\ UNCHANGED <<items, now, lastOp, tableVars, watcherVars, hotkey_active,
                   selected_item, registered, keys, loop, hide_tasks, hk,
                   panelVars>>

\* window.rs 568: exit_hotkey_mode, hotkey_state.exit()
ExitHotkeyModeExit ==
    /\ main.pc = "idle"
    /\ hotkey_active' = FALSE
    /\ main' = [pc |-> "take",
                cancels |-> IF hotkey_active /\ hk.unreleased
                            THEN hk.session ELSE 0]
    /\ hk' = Exited(hk, "main")
    /\ UNCHANGED <<items, now, lastOp, tableVars, watcherVars, selected_item,
                   registered, keys, loop, hide_tasks, panelVars>>

\* window.rs 570: exit_hotkey_mode, selected_state.take()
ExitHotkeyModeTake ==
    /\ main.pc = "take"
    /\ selected_item' = None
    /\ main' = MainIdle
    /\ hk' = Taken([Cancelled(main.cancels) EXCEPT !.selected_in = 0], "main")
    /\ UNCHANGED <<items, now, lastOp, tableVars, watcherVars, hotkey_active,
                   registered, keys, loop, hide_tasks, panelVars>>

\* window.rs 574-576: set_selected_item; the history notes the session the
\* slot was written in, 0 when the mode was Idle
SetSelectedItem(id) ==
    /\ main.pc = "idle"
    /\ selected_item' = Some(id)
    /\ hk' = [hk EXCEPT !.selected_in = IF hotkey_active THEN hk.session ELSE 0]
    /\ UNCHANGED <<items, now, lastOp, tableVars, watcherVars, hotkey_active,
                   registered, keys, loop, main, hide_tasks, panelVars>>

\* window.rs 422-426: hide_window begins with hotkey_state.exit()
HideWindowTask ==
    /\ hide_tasks > 0
    /\ hide_tasks' = hide_tasks - 1
    /\ hotkey_active' = FALSE
    /\ UNCHANGED <<items, now, lastOp, tableVars, watcherVars, selected_item,
                   registered, keys, loop, main, hk, panelVars>>

\* window.rs 422-426: the frontend invokes hide_window
HideWindowCommand ==
    /\ hotkey_active
    /\ hotkey_active' = FALSE
    /\ UNCHANGED <<items, now, lastOp, tableVars, watcherVars, selected_item,
                   registered, keys, loop, main, hide_tasks, hk, panelVars>>

\* hotkey.rs 90-100: unregister; mgr is current_shortcut (cur: it is Some)
\* together with the number of registrations the system holds
unregister(mgr) ==
    [cur |-> FALSE, held |-> IF mgr.cur THEN mgr.held - 1 ELSE mgr.held]

\* A register that does not unregister the shortcut it holds
register_keeping(mgr, os_ok) ==
    IF os_ok THEN [cur |-> TRUE, held |-> mgr.held + 1] ELSE mgr

\* hotkey.rs 22-88: register; the shortcut held is unregistered first, then
\* the system accepts the new registration or refuses it
register(mgr, os_ok) ==
    LET freed == unregister(mgr)
    IN  IF os_ok THEN [cur |-> TRUE, held |-> freed.held + 1] ELSE freed

\* hotkey.rs 103-110: the frontend invokes register_hotkey
RegisterHotkey ==
    /\ \E os_ok \in BOOLEAN :
         LET next == register([cur |-> registered, held |-> hk.held], os_ok)
         IN  /\ registered' = next.cur
             /\ hk' = [hk EXCEPT !.held = next.held, !.refused = ~os_ok]
    /\ UNCHANGED <<items, now, lastOp, tableVars, watcherVars, hotkey_active,
                   selected_item, keys, loop, main, hide_tasks, panelVars>>

\* A tick that does not take the V key to be held when the mode is entered
LoopTickKeyNotHeld ==
    /\ loop.pc = "sleep"
    /\ LET is_active == hotkey_active
           entering == is_active /\ ~loop.was_active
           leaving == ~is_active /\ loop.was_active
           mgr == [cur |-> registered, held |-> hk.held]
       IN  /\ \E os_ok \in BOOLEAN :
                LET next == IF entering THEN unregister(mgr)
                            ELSE IF leaving THEN register(mgr, os_ok)
                            ELSE mgr
                IN  /\ registered' = next.cur
                    /\ hk' = [hk EXCEPT
                          !.v_tick = IF is_active THEN @ ELSE "idle",
                          !.held = next.held,
                          !.refused = IF leaving THEN ~os_ok
                                      ELSE IF entering THEN FALSE ELSE @]
           /\ loop' = [loop EXCEPT
                 !.was_active = is_active,
                 !.v_was_pressed = IF leaving THEN FALSE ELSE @,
                 !.session = IF is_active THEN hk.session ELSE 0,
                 !.pc = IF is_active THEN "keys" ELSE "sleep"]
    /\ UNCHANGED <<items, now, lastOp, tableVars, watcherVars, hotkey_active,
                   selected_item, keys, main, hide_tasks, panelVars>>

\* lib.rs 117-153: the tick begins; is_active is read, the shortcut is
\* unregistered on entry and registered again on exit (which may fail)
LoopTick ==
    /\ loop.pc = "sleep"
    /\ LET is_active == hotkey_active
           entering == is_active /\ ~loop.was_active
           leaving == ~is_active /\ loop.was_active
           mgr == [cur |-> registered, held |-> hk.held]
       IN  /\ \E os_ok \in BOOLEAN :
                LET next == IF entering THEN unregister(mgr)
                            ELSE IF leaving THEN register(mgr, os_ok)
                            ELSE mgr
                IN  /\ registered' = next.cur
                    /\ hk' = [hk EXCEPT
                          !.v_tick = IF is_active THEN @ ELSE "idle",
                          !.held = next.held,
                          !.refused = IF leaving THEN ~os_ok
                                      ELSE IF entering THEN FALSE ELSE @]
           /\ loop' = [loop EXCEPT
                 !.was_active = is_active,
                 !.v_was_pressed = IF entering THEN TRUE
                                   ELSE IF leaving THEN FALSE ELSE @,
                 !.session = IF is_active THEN hk.session ELSE 0,
                 !.pc = IF is_active THEN "keys" ELSE "sleep"]
    /\ UNCHANGED <<items, now, lastOp, tableVars, watcherVars, hotkey_active,
                   selected_item, keys, main, hide_tasks, panelVars>>

\* lib.rs 157-171: Escape and V are read, a new V press emits hotkey-cycle
LoopReadKeys ==
    /\ loop.pc = "keys"
    /\ hk' = [hk EXCEPT
                !.cycles = IF keys.v /\ ~loop.v_was_pressed THEN 1 - @ ELSE @,
                !.v_tick = IF keys.v THEN "down" ELSE "up"]
    /\ loop' = [loop EXCEPT !.v_was_pressed = keys.v,
                            !.pc = IF keys.esc THEN "esc_exit" ELSE "flags"]
    /\ UNCHANGED <<items, now, lastOp, tableVars, watcherVars, hotkey_active,
                   selected_item, registered, keys, main, hide_tasks,
                   panelVars>>

\* lib.rs 175: Escape, hotkey_state.exit()
LoopEscExit ==
    /\ loop.pc = "esc_exit"
    /\ hotkey_active' = FALSE
    /\ loop' = [loop EXCEPT !.pc = "esc_take",
                            !.cancels = IF hotkey_active /\ hk.unreleased
                                        THEN hk.session ELSE 0]
    /\ hk' = Exited(hk, "loop")
    /\ UNCHANGED <<items, now, lastOp, tableVars, watcherVars, selected_item,
                   registered, keys, main, hide_tasks, panelVars>>

\* lib.rs 181-187: Escape, selected_state.take(), hide_window is spawned
LoopEscTake ==
    /\ loop.pc = "esc_take"
    /\ selected_item' = None
    /\ hide_tasks' = hide_tasks + 1
    /\ hk' = Taken(Spawned(Cancelled(loop.cancels), "hide", "escape", None),
                   "loop")
    /\ loop' = [loop EXCEPT !.pc = "sleep", !.cancels = 0]
    /\ UNCHANGED <<items, now, lastOp, tableVars, watcherVars, hotkey_active,
                   registered, keys, main, panelVars>>

\* lib.rs 191-197: the modifier flags are read
LoopReadFlags ==
    /\ loop.pc = "flags"
    /\ loop' = [loop EXCEPT !.pc = IF ~keys.cmd /\ ~keys.shift THEN "grace"
                                   ELSE "sleep"]
    /\ UNCHANGED <<items, now, lastOp, tableVars, watcherVars, hotkey_active,
                   selected_item, registered, keys, main, hide_tasks, hk,
                   panelVars>>

\* A re-check after the grace period that looks at Escape only
LoopRecheckEscOnly ==
    /\ loop.pc = "grace"
    /\ loop' = [loop EXCEPT
          !.pc = IF ~keys.esc THEN "rel_exit" ELSE "grace_esc",
          !.session = IF ~keys.esc THEN hk.session ELSE @]
    /\ UNCHANGED <<items, now, lastOp, tableVars, watcherVars, hotkey_active,
                   selected_item, registered, keys, main, hide_tasks, hk,
                   panelVars>>

\* lib.rs 199-210: after the grace period Escape is read, then is_active
LoopRecheck ==
    /\ loop.pc = "grace"
    /\ loop' = [loop EXCEPT
          !.pc = IF hotkey_active /\ ~keys.esc THEN "rel_exit"
                 ELSE IF keys.esc THEN "grace_esc" ELSE "sleep",
          !.session = IF hotkey_active /\ ~keys.esc THEN hk.session ELSE @]
    /\ UNCHANGED <<items, now, lastOp, tableVars, watcherVars, hotkey_active,
                   selected_item, registered, keys, main, hide_tasks, hk,
                   panelVars>>

\* A release branch that leaves the mode Active
LoopReleaseNoExit ==
    /\ loop.pc = "rel_exit"
    /\ loop' = [loop EXCEPT !.pc = "rel_take"]
    /\ UNCHANGED <<items, now, lastOp, tableVars, watcherVars, hotkey_active,
                   selected_item, registered, keys, main, hide_tasks, hk,
                   panelVars>>

\* lib.rs 212: release, hotkey_state.exit()
LoopReleaseExit ==
    /\ loop.pc = "rel_exit"
    /\ hotkey_active' = FALSE
    /\ loop' = [loop EXCEPT !.pc = "rel_take"]
    /\ hk' = Exited(hk, "loop")
    /\ UNCHANGED <<items, now, lastOp, tableVars, watcherVars, selected_item,
                   registered, keys, main, hide_tasks, panelVars>>

\* lib.rs 214-236: release, selected_state.take(); the paste of the item
\* taken is spawned, or hide_window when the slot was empty
LoopReleaseTake ==
    /\ loop.pc = "rel_take"
    /\ selected_item' = None
    /\ IF selected_item # None
       THEN /\ hk' = Taken(Spawned(hk, "paste", "release", selected_item),
                           "loop")
            /\ UNCHANGED hide_tasks
       ELSE /\ hk' = Taken(Spawned(hk, "hide", "release", None), "loop")
            /\ hide_tasks' = hide_tasks + 1
    /\ loop' = [loop EXCEPT !.pc = "sleep"]
    /\ UNCHANGED <<items, now, lastOp, tableVars, watcherVars, hotkey_active,
                   registered, keys, main, panelVars>>

\* lib.rs 238: Escape was down after the grace period, is_active is read
LoopGraceEsc ==
    /\ loop.pc = "grace_esc"
    /\ loop' = [loop EXCEPT !.pc = IF hotkey_active THEN "gesc_exit"
                                   ELSE "sleep"]
    /\ UNCHANGED <<items, now, lastOp, tableVars, watcherVars, hotkey_active,
                   selected_item, registered, keys, main, hide_tasks, hk,
                   panelVars>>

\* lib.rs 240: grace-period cancel, hotkey_state.exit()
LoopGraceEscExit ==
    /\ loop.pc = "gesc_exit"
    /\ hotkey_active' = FALSE
    /\ loop' = [loop EXCEPT !.pc = "gesc_take",
                            !.cancels = IF hotkey_active /\ hk.unreleased
                                        THEN hk.session ELSE 0]
    /\ hk' = Exited(hk, "loop")
    /\ UNCHANGED <<items, now, lastOp, tableVars, watcherVars, selected_item,
                   registered, keys, main, hide_tasks, panelVars>>

\* lib.rs 241-249: grace-period cancel, take(), hide_window is spawned
LoopGraceEscTake ==
    /\ loop.pc = "gesc_take"
    /\ selected_item' = None
    /\ hide_tasks' = hide_tasks + 1
    /\ hk' = Taken(Spawned(Cancelled(loop.cancels), "hide", "grace", None),
                   "loop")
    /\ loop' = [loop EXCEPT !.pc = "sleep", !.cancels = 0]
    /\ UNCHANGED <<items, now, lastOp, tableVars, watcherVars, hotkey_active,
                   registered, keys, main, panelVars>>

(***************************************************************************)
(* Specifications.                                                         *)
(***************************************************************************)
(* WindowManager, FocusTracker and PasteCoordinator: window.rs,            *)
(* paste_helper.rs, the shortcut handler of hotkey.rs and paste_item of    *)
(* clipboard.rs.  The async commands run as tasks off the main thread and  *)
(* take a step at each read or write of shared state; what they hand to    *)
(* run_on_main_thread waits in the main thread's queue with the window     *)
(* events, and the main thread runs one entry at a time.                   *)
(***************************************************************************)
NoTask == [kind |-> "none", pc |-> "idle", arg |-> 0, item |-> None,
           app |-> None, auto |-> FALSE, opening |-> FALSE, wrote |-> None, hid |-> FALSE,
           acts |-> <<>>, keystroke |-> None, result |-> "none",
           exited |-> -1]

NoPanelHistory == [calls |-> 0, since_capture |-> 0, since_save |-> 0,
                   callback |-> [from |-> "none", in_hide |-> FALSE],
                   event |-> [name |-> "none", n |-> 0], pasted |-> None]

\* History: app.emit(name, ()); the last event and the parity of their number
Emit(h, name) == [h EXCEPT !.event = [name |-> name, n |-> 1 - @.n]]

\* The task ends: res is "Ok" or "Err"; its record stays until the caller
\* has the result
Finish(t, res) == [t EXCEPT !.pc = "ret", !.result = res]

\* An application is activated while the panel is the key window: the panel
\* resigns key and window_did_resign_key is queued for its delegate
Resigns(app) == panel_visible /\ panel_key /\ app # Yoink

Activate(app) ==
    /\ frontmost' = Some(app)
    /\ panel_key' = (panel_key /\ ~Resigns(app))
    /\ main_queue' = (IF Resigns(app) THEN Append(main_queue, "resign")
                      ELSE main_queue)

\* A command is invoked and its task starts at pc; the lowest free task
\* takes it
Invoke(t, kind, pc, arg) ==
    /\ main.pc = "idle"
    /\ ph.calls < MaxCalls
    /\ tasks[t].kind = "none"
    /\ \A u \in Tasks : u < t => tasks[u].kind # "none"
    /\ tasks' = [tasks EXCEPT ![t] = [NoTask EXCEPT !.kind = kind, !.pc = pc,
                                                     !.arg = arg]]
    /\ ph' = [ph EXCEPT !.calls = @ + 1]
    /\ UNCHANGED <<items, now, lastOp, tableVars, watcherVars, hotkeyVars,
                   panel_visible, panel_key, is_hiding, frontmost,
                   previous_app, bundle_id, main_queue, im>>

\* window.rs 382-419: show_window is invoked (frontend, tray menu)
ShowWindow(t) == Invoke(t, "show", "capture", 0)

\* window.rs 422-463: hide_window is invoked
HideWindow(t) == Invoke(t, "hide", "exit", 0)

\* hotkey.rs 30-83: the global shortcut fires and the handler spawns its task
ShortcutPressed(t) == registered /\ Invoke(t, "shortcut", "opening", 0)

\* clipboard.rs 254-260: paste_item(id) is invoked
PasteItem(t, id) == Invoke(t, "paste", "lookup", id)

\* window.rs 116-132: PreviousAppState::capture
capture(slot, front) == IF front # None THEN front ELSE slot

\* window.rs 388-390 and 503-505: the task captures the frontmost application
TaskCapture(t) ==
    /\ tasks[t].pc = "capture"
    /\ previous_app' = capture(previous_app, frontmost)
    /\ ph' = [ph EXCEPT !.since_capture = IF frontmost # None THEN 0 ELSE @]
    /\ tasks' = [tasks EXCEPT ![t].pc = "show"]
    /\ UNCHANGED <<items, now, lastOp, tableVars, watcherVars, hotkeyVars,
                   panel_visible, panel_key, is_hiding, frontmost, bundle_id,
                   main_queue, im>>

\* window.rs 393-416 and 507-536: activate, show and make_key_window are
\* handed to the main thread
TaskShow(t) ==
    /\ tasks[t].pc = "show"
    /\ main_queue' = Append(main_queue, "show")
    /\ tasks' = [tasks EXCEPT ![t] = Finish(@, "Ok")]
    /\ UNCHANGED <<items, now, lastOp, tableVars, watcherVars, hotkeyVars,
                   panel_visible, panel_key, is_hiding, frontmost,
                   previous_app, bundle_id, ph, im>>

\* A hide that goes on to order_out without calling hotkey_state.exit()
TaskExitKeepsMode(t) ==
    /\ tasks[t].pc = "exit"
    /\ tasks' = [tasks EXCEPT ![t].pc = "set_hiding", ![t].exited = hk.session]
    /\ UNCHANGED <<items, now, lastOp, tableVars, watcherVars, hotkeyVars,
                   panel_visible, panel_key, is_hiding, frontmost,
                   previous_app, bundle_id, main_queue, ph, im>>

\* window.rs 424-426 and 476-478: hotkey_state.exit(). History: exited is
\* the session in which the task called it
TaskExit(t) ==
    /\ tasks[t].pc = "exit"
    /\ hotkey_active' = FALSE
    /\ tasks' = [tasks EXCEPT ![t].pc = "set_hiding", ![t].exited = hk.session]
    /\ UNCHANGED <<items, now, lastOp, tableVars, watcherVars, selected_item,
                   registered, keys, loop, main, hide_tasks, hk,
                   panel_visible, panel_key, is_hiding, frontmost,
                   previous_app, bundle_id, main_queue, ph, im>>

\* window.rs 435-438 and 484-487: guard.set_hiding()
TaskSetHiding(t) ==
    /\ tasks[t].pc = "set_hiding"
    /\ is_hiding' = TRUE
    /\ tasks' = [tasks EXCEPT ![t].pc = "order_out"]
    /\ UNCHANGED <<items, now, lastOp, tableVars, watcherVars, hotkeyVars,
                   panel_visible, panel_key, frontmost, previous_app,
                   bundle_id, main_queue, ph, im>>

\* window.rs 441-443 and 489-491: run_on_main_thread(order_out) queues the
\* closure and returns
TaskOrderOut(t) ==
    /\ tasks[t].pc = "order_out"
    /\ main_queue' = Append(main_queue, "order_out")
    /\ tasks' = [tasks EXCEPT ![t].pc = "clear_hiding"]
    /\ UNCHANGED <<items, now, lastOp, tableVars, watcherVars, hotkeyVars,
                   panel_visible, panel_key, is_hiding, frontmost,
                   previous_app, bundle_id, ph, im>>

\* window.rs 445-447 and 493-495: guard.clear_hiding()
TaskClearHiding(t) ==
    /\ tasks[t].pc = "clear_hiding"
    /\ is_hiding' = FALSE
    /\ tasks' = [tasks EXCEPT ![t].pc = "restore"]
    /\ UNCHANGED <<items, now, lastOp, tableVars, watcherVars, hotkeyVars,
                   panel_visible, panel_key, frontmost, previous_app,
                   bundle_id, main_queue, ph, im>>

\* window.rs 135-145: PreviousAppState::restore takes the slot and activates
\* what it held
TaskRestore(t) ==
    /\ tasks[t].pc = "restore"
    /\ previous_app' = None
    /\ IF previous_app # None
       THEN /\ Activate(previous_app[1])
            /\ ph' = [ph EXCEPT !.since_capture = @ + 1]
       ELSE UNCHANGED <<frontmost, panel_key, main_queue, ph, im>>
    /\ tasks' = [tasks EXCEPT ![t] =
         LET done == [@ EXCEPT !.hid = TRUE,
                               !.acts = IF previous_app # None
                                        THEN Append(@, "restore") ELSE @]
         IN  IF @.kind = "paste" /\ @.auto
             THEN [done EXCEPT !.pc = "get_app"]
             ELSE Finish(done, "Ok")]
    /\ UNCHANGED <<items, now, lastOp, tableVars, watcherVars, hotkeyVars,
                   panel_visible, is_hiding, bundle_id, im>>

\* window.rs 468-474: toggle_window reads panel.is_visible()
TaskVisible(t) ==
    /\ tasks[t].pc = "visible"
    /\ tasks' = [tasks EXCEPT ![t].pc = IF panel_visible THEN "exit"
                                        ELSE "capture"]
    /\ UNCHANGED <<items, now, lastOp, tableVars, watcherVars, hotkeyVars,
                   panel_visible, panel_key, is_hiding, frontmost,
                   previous_app, bundle_id, main_queue, ph, im>>

\* hotkey.rs 56-79: is_opening = !panel.is_visible(); "hotkey-mode-started"
\* is emitted when opening; toggle_window follows
ShortcutOpening(t) ==
    /\ tasks[t].pc = "opening"
    /\ ph' = (IF panel_visible THEN ph ELSE Emit(ph, "hotkey-mode-started"))
    /\ tasks' = [tasks EXCEPT ![t].pc = "visible",
                              ![t].opening = ~panel_visible]
    /\ UNCHANGED <<items, now, lastOp, tableVars, watcherVars, hotkeyVars,
                   panel_visible, panel_key, is_hiding, frontmost,
                   previous_app, bundle_id, main_queue, im>>

\* The caller receives the task's result
TaskReturn(t) ==
    /\ tasks[t].pc = "ret"
    /\ tasks' = [tasks EXCEPT ![t] = NoTask]
    /\ UNCHANGED <<items, now, lastOp, tableVars, watcherVars, hotkeyVars,
                   panel_visible, panel_key, is_hiding, frontmost,
                   previous_app, bundle_id, main_queue, ph, im>>

\* The main thread takes "show" from its queue: window.rs 393-416 and
\* 511-536, activateIgnoringOtherApps, panel.show(), make_key_window()
MainShow ==
    /\ main.pc = "idle"
    /\ main_queue # <<>> /\ Head(main_queue) = "show"
    /\ main_queue' = Tail(main_queue)
    /\ frontmost' = Some(Yoink)
    /\ panel_visible' = TRUE
    /\ panel_key' = TRUE
    /\ UNCHANGED <<items, now, lastOp, tableVars, watcherVars, hotkeyVars,
                   is_hiding, previous_app, bundle_id, tasks, ph, im>>

\* The delegate's listener is entered for window_did_resign_key; in_hide says
\* that a programmatic order_out is what made the panel resign
Callback(in_hide) == [pc |-> "dl_guard", cancels |-> 0, in_hide |-> in_hide]

\* The main thread takes "order_out" from its queue: window.rs 442 and 490,
\* panel.order_out(None).  A panel that is key resigns and the listener runs
\* inside the call; whether the panel still counts as visible meanwhile is
\* the window system's choice
MainOrderOut ==
    /\ main.pc = "idle"
    /\ main_queue # <<>> /\ Head(main_queue) = "order_out"
    /\ main_queue' = Tail(main_queue)
    /\ panel_key' = FALSE
    /\ IF panel_visible /\ panel_key
       THEN /\ panel_visible' \in BOOLEAN
            /\ main' = Callback(TRUE)
       ELSE /\ panel_visible' = FALSE
            /\ main' = main
    /\ UNCHANGED <<items, now, lastOp, tableVars, watcherVars, hotkey_active,
                   selected_item, registered, keys, loop, hide_tasks, hk,
                   is_hiding, frontmost, previous_app, bundle_id, tasks, ph,
                   im>>

\* The main thread takes "resign" from its queue: the panel lost key status
\* to another application and the listener runs
MainResign ==
    /\ main.pc = "idle"
    /\ main_queue # <<>> /\ Head(main_queue) = "resign"
    /\ main_queue' = Tail(main_queue)
    /\ main' = Callback(FALSE)
    /\ UNCHANGED <<items, now, lastOp, tableVars, watcherVars, hotkey_active,
                   selected_item, registered, keys, loop, hide_tasks, hk,
                   panel_visible, panel_key, is_hiding, frontmost,
                   previous_app, bundle_id, tasks, ph, im>>

\* The listener returns; an order_out it ran inside of completes
CallbackReturns ==
    /\ main' = MainIdle
    /\ panel_visible' = (panel_visible /\ ~main.in_hide)
    /\ panel_key' = (panel_key /\ ~main.in_hide)

\* History: the place the listener returned from
Returned(h, from) ==
    [h EXCEPT !.callback = [from |-> from, in_hide |-> main.in_hide]]

\* window.rs 188-193: guard.is_hiding()
DelegateGuard ==
    /\ main.pc = "dl_guard"
    /\ IF is_hiding
       THEN /\ CallbackReturns
            /\ ph' = Returned(ph, "guard")
       ELSE /\ main' = [main EXCEPT !.pc = "dl_mode"]
            /\ UNCHANGED <<panel_visible, panel_key, ph, im>>
    /\ UNCHANGED <<items, now, lastOp, tableVars, watcherVars, hotkey_active,
                   selected_item, registered, keys, loop, hide_tasks, hk,
                   is_hiding, frontmost, previous_app, bundle_id, main_queue,
                   tasks, im>>

\* A listener that does not look at the hotkey mode
DelegateModeIgnored ==
    /\ main.pc = "dl_mode"
    /\ main' = [main EXCEPT !.pc = "dl_sticky"]
    /\ UNCHANGED <<items, now, lastOp, tableVars, watcherVars, hotkey_active,
                   selected_item, registered, keys, loop, hide_tasks, hk,
                   panel_visible, panel_key, is_hiding, frontmost,
                   previous_app, bundle_id, main_queue, tasks, ph, im>>

\* window.rs 196-219: hotkey_state.is_active(); when Active the application
\* is activated again, the panel made key, and the listener returns
DelegateMode ==
    /\ main.pc = "dl_mode"
    /\ IF hotkey_active
       THEN /\ frontmost' = Some(Yoink)
            /\ main' = MainIdle
            /\ panel_visible' = (panel_visible /\ ~main.in_hide)
            /\ panel_key' = ~main.in_hide
            /\ ph' = Returned(ph, "mode")
       ELSE /\ main' = [main EXCEPT !.pc = "dl_sticky"]
            /\ UNCHANGED <<frontmost, panel_visible, panel_key, ph, im>>
    /\ UNCHANGED <<items, now, lastOp, tableVars, watcherVars, hotkey_active,
                   selected_item, registered, keys, loop, hide_tasks, hk,
                   is_hiding, previous_app, bundle_id, main_queue, tasks, im>>

\* window.rs 222-234: settings_manager.get().sticky_mode
DelegateSticky ==
    /\ main.pc = "dl_sticky"
    /\ IF settings.sticky_mode
       THEN /\ CallbackReturns
            /\ ph' = Returned(ph, "sticky")
       ELSE /\ main' = [main EXCEPT !.pc = "dl_hide"]
            /\ UNCHANGED <<panel_visible, panel_key, ph, im>>
    /\ UNCHANGED <<items, now, lastOp, tableVars, watcherVars, hotkey_active,
                   selected_item, registered, keys, loop, hide_tasks, hk,
                   is_hiding, frontmost, previous_app, bundle_id, main_queue,
                   tasks, im>>

\* History: the listener's hide path; a visible panel is hidden and
\* "panel-hidden" is emitted
PanelHidden(h) ==
    IF panel_visible THEN Returned(Emit(h, "panel-hidden"), "hide")
    ELSE Returned(h, "hidden")

\* A listener whose hide path also restores the captured application
DelegateHideRestores ==
    /\ main.pc = "dl_hide"
    /\ main' = MainIdle
    /\ panel_visible' = FALSE
    /\ panel_key' = (panel_key /\ ~main.in_hide)
    /\ previous_app' = None
    /\ frontmost' = (IF previous_app # None THEN previous_app ELSE frontmost)
    /\ ph' = [PanelHidden(ph) EXCEPT
                !.since_capture = IF previous_app # None THEN @ + 1 ELSE @]
    /\ UNCHANGED <<items, now, lastOp, tableVars, watcherVars, hotkey_active,
                   selected_item, registered, keys, loop, hide_tasks, hk,
                   is_hiding, bundle_id, main_queue, tasks, im>>

\* window.rs 237-242: a visible panel is ordered out and "panel-hidden" is
\* emitted
DelegateHide ==
    /\ main.pc = "dl_hide"
    /\ main' = MainIdle
    /\ panel_visible' = FALSE
    /\ panel_key' = (panel_key /\ ~main.in_hide)
    /\ ph' = PanelHidden(ph)
    /\ UNCHANGED <<items, now, lastOp, tableVars, watcherVars, hotkey_active,
                   selected_item, registered, keys, loop, hide_tasks, hk,
                   is_hiding, frontmost, previous_app, bundle_id, main_queue,
                   tasks, im>>

\* The user brings another application to the front
FocusLoss ==
    /\ frontmost # Some(OtherApp)
    /\ Activate(OtherApp)
    /\ UNCHANGED <<items, now, lastOp, tableVars, watcherVars, hotkeyVars,
                   panel_visible, is_hiding, previous_app, bundle_id, tasks,
                   ph, im>>

\* paste_helper.rs 38-58 and 16-24: save_previous_app stores the frontmost
\* application's bundle id unless it is the utility's own
save_previous_app(slot, front) ==
    IF front # None /\ front # Some(Yoink) THEN front ELSE slot

\* paste_helper.rs 16-24: save_previous_app is called before the panel is
\* shown
SavePreviousApp ==
    /\ main.pc = "idle"
    /\ ~panel_visible
    /\ bundle_id' = save_previous_app(bundle_id, frontmost)
    /\ ph' = [ph EXCEPT !.since_save =
                IF frontmost # None /\ frontmost # Some(Yoink) THEN 0 ELSE @]
    /\ UNCHANGED <<items, now, lastOp, tableVars, watcherVars, hotkeyVars,
                   panel_visible, panel_key, is_hiding, frontmost,
                   previous_app, main_queue, tasks, im>>

\* settings.rs 147-152: update_settings changes the preference named
UpdatePreferences(name) ==
    /\ settings' = [settings EXCEPT ![name] = ~@]
    /\ lastOp' = Op("update_settings", 0, TRUE, 0)
    /\ UNCHANGED <<items, last_hash, clip_text, clip_image, now, next_uuid,
                   poll, emitted, recent, tableVars, hotkeyVars, panelVars>>

\* exclusions.rs 52-66: is_app_excluded, given the settings and what
\* get_frontmost_app returns
is_app_excluded(sett, front) ==
    IF sett.excluded_apps = <<>> THEN FALSE
    ELSE IF front # None
    THEN \E i \in 1..Len(sett.excluded_apps) :
            Contains(to_lowercase(BundleChars(front[1])),
                     to_lowercase(sett.excluded_apps[i]))
    ELSE FALSE

\* exclusions.rs 74-78: the command check_app_excluded
CheckAppExcluded ==
    /\ lastOp' = Op("check_app_excluded", is_app_excluded(settings, frontmost),
                    TRUE, 0)
    /\ UNCHANGED <<items, now, tableVars, watcherVars, hotkeyVars, panelVars>>

\* settings.rs 147-152: update_settings with another excluded_apps list
UpdateExcludedApps ==
    /\ \E l \in ExcludedLists \ {settings.excluded_apps} :
         settings' = [settings EXCEPT !.excluded_apps = l]
    /\ lastOp' = Op("update_settings", 0, TRUE, 0)
    /\ UNCHANGED <<items, last_hash, clip_text, clip_image, now, next_uuid,
                   poll, emitted, recent, tableVars, hotkeyVars, panelVars>>

\* The user brings the application app to the front while the panel is
\* hidden
FrontmostChanges(app) ==
    /\ ~panel_visible
    /\ frontmost # Some(app)
    /\ frontmost' = Some(app)
    /\ UNCHANGED <<items, now, lastOp, tableVars, watcherVars, hotkeyVars,
                   panel_visible, panel_key, is_hiding, previous_app,
                   bundle_id, main_queue, tasks, ph, im>>

\* A paste_item that treats a missing item as a request to hide the panel
PasteLookupHides(t) ==
    /\ tasks[t].pc = "lookup"
    /\ \E io_ok \in BOOLEAN :
         LET item == get_item(items, tasks[t].arg)
         IN  /\ tasks' = [tasks EXCEPT ![t] =
                 IF ~io_ok THEN Finish(@, "Err")
                 ELSE IF item = None THEN [@ EXCEPT !.pc = "exit"]
                 ELSE [@ EXCEPT !.pc = "write", !.item = item,
                                !.auto = settings.auto_paste]]
             /\ lastOp' = Op("get_item", tasks[t].arg, io_ok, 0)
    /\ UNCHANGED <<items, now, tableVars, watcherVars, hotkeyVars,
                   panel_visible, panel_key, is_hiding, frontmost,
                   previous_app, bundle_id, main_queue, ph, im>>

\* clipboard.rs 261-262: db.get_item(&id)? and settings_manager.get(); an id
\* that is not in the store ends the command with Ok(())
PasteLookup(t) ==
    /\ tasks[t].pc = "lookup"
    /\ \E io_ok \in BOOLEAN :
         LET item == get_item(items, tasks[t].arg)
         IN  /\ tasks' = [tasks EXCEPT ![t] =
                 IF ~io_ok THEN Finish(@, "Err")
                 ELSE IF item = None THEN Finish(@, "Ok")
                 ELSE [@ EXCEPT !.pc = "write", !.item = item,
                                !.auto = settings.auto_paste]]
             /\ lastOp' = Op("get_item", tasks[t].arg, io_ok, 0)
    /\ UNCHANGED <<items, now, tableVars, watcherVars, hotkeyVars,
                   panel_visible, panel_key, is_hiding, frontmost,
                   previous_app, bundle_id, main_queue, ph, im>>

\* clipboard.rs 264-282: what paste_item hands to clipboard.write_text: the
\* preview of an image item whose content decodes, the content of any other
\* item, nothing for an image item whose content does not decode
paste_text(item) ==
    IF item.content_type = "image"
    THEN IF Base64Decode(item.content) # None THEN Some(item.preview)
         ELSE None
    ELSE Some(item.content)

\* A paste_item that takes what it wrote for the content last recorded
PasteWriteSetsHash(t) ==
    /\ tasks[t].pc = "write"
    /\ LET text == paste_text(tasks[t].item[1])
       IN  \E os_ok \in BOOLEAN :
             LET written == os_ok /\ text # None
             IN  /\ clip_text' = (IF written THEN text ELSE clip_text)
                 /\ clip_image' = (IF written THEN None ELSE clip_image)
                 /\ ph' = [ph EXCEPT !.pasted =
                      IF written THEN Some(tasks[t].item[1].hash) ELSE @]
                 /\ last_hash' = (IF written THEN Some(compute_hash(text[1]))
                                  ELSE last_hash)
                 /\ tasks' = [tasks EXCEPT ![t] =
                      IF text # None /\ ~os_ok THEN Finish(@, "Err")
                      ELSE [@ EXCEPT !.pc = "exit", !.wrote = text]]
    /\ UNCHANGED <<items, now, next_uuid, settings, poll, emitted,
                   recent, lastOp, tableVars, hotkeyVars, panel_visible,
                   panel_key, is_hiding, frontmost, previous_app, bundle_id,
                   main_queue, im>>

\* clipboard.rs 264-282: the clipboard write, when there is something to
\* write; a failure ends the command with its error
PasteWrite(t) ==
    /\ tasks[t].pc = "write"
    /\ LET text == paste_text(tasks[t].item[1])
       IN  \E os_ok \in BOOLEAN :
             LET written == os_ok /\ text # None
             IN  /\ clip_text' = (IF written THEN text ELSE clip_text)
                 /\ clip_image' = (IF written THEN None ELSE clip_image)
                 /\ ph' = [ph EXCEPT !.pasted =
                      IF written THEN Some(tasks[t].item[1].hash) ELSE @]
                 /\ tasks' = [tasks EXCEPT ![t] =
                      IF text # None /\ ~os_ok THEN Finish(@, "Err")
                      ELSE [@ EXCEPT !.pc = "exit", !.wrote = text]]
    /\ UNCHANGED <<items, last_hash, now, next_uuid, settings, poll, emitted,
                   recent, lastOp, tableVars, hotkeyVars, panel_visible,
                   panel_key, is_hiding, frontmost, previous_app, bundle_id,
                   main_queue, im>>

\* A paste-back that sends the keystroke without activating an application
PasteGetAppOnly(t) ==
    /\ tasks[t].pc = "get_app"
    /\ tasks' = [tasks EXCEPT ![t] =
         IF bundle_id = None THEN Finish(@, "Ok")
         ELSE [@ EXCEPT !.pc = "keystroke", !.app = bundle_id]]
    /\ UNCHANGED <<items, now, lastOp, tableVars, watcherVars, hotkeyVars,
                   panel_visible, panel_key, is_hiding, frontmost,
                   previous_app, bundle_id, main_queue, ph, im>>

\* paste_helper.rs 127 and 27-29: previous_app_state.get_previous_app(); with
\* no application saved the paste-back is skipped
PasteGetApp(t) ==
    /\ tasks[t].pc = "get_app"
    /\ tasks' = [tasks EXCEPT ![t] =
         IF bundle_id = None THEN Finish(@, "Ok")
         ELSE [@ EXCEPT !.pc = "activate", !.app = bundle_id]]
    /\ UNCHANGED <<items, now, lastOp, tableVars, watcherVars, hotkeyVars,
                   panel_visible, panel_key, is_hiding, frontmost,
                   previous_app, bundle_id, main_queue, ph, im>>

\* paste_helper.rs 129 and 66-85: activate_app(&bundle_id)?; paste_item logs
\* the error (clipboard.rs 291-294) and returns Ok(())
PasteActivate(t) ==
    /\ tasks[t].pc = "activate"
    /\ \E os_ok \in BOOLEAN :
         IF os_ok
         THEN /\ Activate(tasks[t].app[1])
              /\ ph' = [ph EXCEPT !.since_save = @ + 1]
              /\ tasks' = [tasks EXCEPT ![t].pc = "keystroke",
                                        ![t].acts = Append(@, "paste_back")]
         ELSE /\ tasks' = [tasks EXCEPT ![t] = Finish(@, "Ok")]
              /\ UNCHANGED <<frontmost, panel_key, main_queue, ph, im>>
    /\ UNCHANGED <<items, now, lastOp, tableVars, watcherVars, hotkeyVars,
                   panel_visible, is_hiding, previous_app, bundle_id, im>>

\* A paste-back whose keystroke failure ends the command with the error
PasteKeystrokeFails(t) ==
    /\ tasks[t].pc = "keystroke"
    /\ \E os_ok \in BOOLEAN :
         LET me == tasks[t]
             found == [clipboard |-> clip_text, hid |-> me.hid,
                       activated |-> me.acts # <<>>
                           /\ me.acts[Len(me.acts)] = "paste_back",
                       into |-> frontmost]
         IN  tasks' = [tasks EXCEPT ![t] =
                IF os_ok THEN Finish([me EXCEPT !.keystroke = Some(found)], "Ok")
                ELSE Finish(me, "Err")]
    /\ UNCHANGED <<items, now, lastOp, tableVars, watcherVars, hotkeyVars,
                   panel_visible, panel_key, is_hiding, frontmost,
                   previous_app, bundle_id, main_queue, ph, im>>

\* paste_helper.rs 132-136 and 94-113: the settle delay, then simulate_paste;
\* the history keeps what the keystroke found
PasteKeystroke(t) ==
    /\ tasks[t].pc = "keystroke"
    /\ \E os_ok \in BOOLEAN :
         LET me == tasks[t]
             found == [clipboard |-> clip_text, hid |-> me.hid,
                       activated |-> me.acts # <<>>
                           /\ me.acts[Len(me.acts)] = "paste_back",
                       into |-> frontmost]
         IN  tasks' = [tasks EXCEPT ![t] =
                Finish(IF os_ok THEN [me EXCEPT !.keystroke = Some(found)]
                       ELSE me, "Ok")]
    /\ UNCHANGED <<items, now, lastOp, tableVars, watcherVars, hotkeyVars,
                   panel_visible, panel_key, is_hiding, frontmost,
                   previous_app, bundle_id, main_queue, ph, im>>

(***************************************************************************)
(* The pure functions of the watcher applied to texts of every shape the   *)
(* classification and the preview distinguish.                             *)
(***************************************************************************)
\* The pieces the classified texts are put together from, as code points
Fragments ==
    {<<>>,
     <<32>>,                                                 \* " "
     <<47,117,115,114,47,108,111,99,97,108,47,98,105,110>>,  \* /usr/local/bin
     <<10>>,                                                 \* newline
     <<104,116,116,112,115,58,47,47,101,120,97,109,112,108,101,46,99,111,
       109>>,                                         \* https://example.com
     <<104,116,116,112,58,47,47,97>>,                        \* http://a
     <<102,116,112,58,47,47,97>>,                            \* ftp://a
     <<99,111,110,115,116,32,120,32,61,32,49,59,32>>,        \* "const x = 1; "
     <<70,85,78,67,84,73,79,78,32,102,40,41,32,123,125>>,    \* FUNCTION f() {}
     <<104,101,108,108,111,32,119,111,114,108,100>>,         \* hello world
     <<67,58,92,120>>,                                       \* C:\x
     <<233>>,                                   \* e with an acute accent
     <<97,61,62,98>>}                                        \* a=>b

\* The texts the specification gives as examples
ExampleUrl ==
    <<104,116,116,112,115,58,47,47,101,120,97,109,112,108,101,46,99,111,109>>

ExampleFile == <<47,117,115,114,47,108,111,99,97,108,47,98,105,110>>

\* "/usr/local/bin", a newline, "/etc/hosts"
ExampleFiles ==
    <<47,117,115,114,47,108,111,99,97,108,47,98,105,110,10,
      47,101,116,99,47,104,111,115,116,115>>

\* "const x = 1; function f() {}"
ExampleCode ==
    <<99,111,110,115,116,32,120,32,61,32,49,59,32,
      102,117,110,99,116,105,111,110,32,102,40,41,32,123,125>>

ExampleText == <<104,101,108,108,111,32,119,111,114,108,100>>

ClassifiedTexts ==
    {a \o b : a \in Fragments, b \in Fragments}
        \cup {ExampleUrl, ExampleFile, ExampleFiles, ExampleCode, ExampleText}

\* clipboard.rs 56, 143-169: detect_content_type applied to a text; a panic
\* ends the call without a result
DetectContentType(text) ==
    /\ lastOp' = Op("detect_content_type", text,
                    detect_content_type(text) # PANIC,
                    detect_content_type(text))
    /\ UNCHANGED <<items, now, tableVars, watcherVars, hotkeyVars, panelVars>>

\* n times the character c
Repeat(c, n) == [i \in 1..n |-> c]

\* "a", e with an acute accent (two bytes in UTF-8), the control character
\* BEL, newline and tab
PreviewedChars == {97, 233, 7, 10, 9}

\* Texts around the limit of the preview: up to two characters of one kind
\* followed by a run of another kind that is empty, half the limit, just over
\* half, just under the limit, the limit, or just over it
PreviewedTexts ==
    {Repeat(a, n) \o Repeat(b, k) :
        a \in PreviewedChars, b \in PreviewedChars, n \in 0..2,
        k \in {0, PreviewChars \div 2, PreviewChars \div 2 + 1,
               PreviewChars - 1, PreviewChars, PreviewChars + 1}}

\* clipboard.rs 57, 129-141: create_text_preview applied to a text
CreateTextPreview(text) ==
    /\ lastOp' = Op("create_text_preview", text, TRUE,
                    create_text_preview(text))
    /\ UNCHANGED <<items, now, tableVars, watcherVars, hotkeyVars, panelVars>>

(***************************************************************************)
(* input_monitor.rs: the quick-switch key listener.  `im` holds the two    *)
(* shared flags of InputMonitor, the number of start_quick_switch calls    *)
(* that have passed the is_active test and not yet stored, the listener    *)
(* threads spawned so far and the event last emitted to the frontend.      *)
(***************************************************************************)
MonitorKeys == {"cmd", "shift", "v"}

NoEvent == [by |-> 0, name |-> "none", n |-> 0]

\* input_monitor.rs 15-20: InputMonitor::new
NoMonitor ==
    [is_active |-> FALSE, stop_flag |-> FALSE, starting |-> 0,
     listeners |-> <<>>, log |-> NoEvent]

\* input_monitor.rs 43-50: the thread start_quick_switch spawns; both
\* modifiers are assumed held.  `pending` is the key event the callback has
\* not yet handled; `ended` records that the session this listener served
\* was ended by stop or by its own confirm
NewListener ==
    [state |-> "starting", cmd_held |-> TRUE, shift_held |-> TRUE,
     pending |-> None, ended |-> FALSE]

MonitorUnchanged ==
    UNCHANGED <<items, now, tableVars, watcherVars, hotkeyVars,
                panel_visible, panel_key, is_hiding, frontmost,
                previous_app, bundle_id, main_queue, tasks, ph>>

\* input_monitor.rs 31-35: the test of is_active; an active monitor makes the
\* call return at once
StartQuickSwitchLoad ==
    /\ keys.cmd /\ keys.shift /\ keys.v
    /\ Len(im.listeners) + im.starting < MaxListeners
    /\ IF im.is_active
       THEN /\ lastOp' = Op("start_quick_switch", Len(im.listeners), FALSE, 0)
            /\ UNCHANGED im
       ELSE /\ lastOp' = Op("start_quick_switch", Len(im.listeners), TRUE, 0)
            /\ im' = [im EXCEPT !.starting = @ + 1]
    /\ MonitorUnchanged

\* input_monitor.rs 37-50: the stores of both flags and the spawn
StartQuickSwitchStore ==
    /\ im.starting > 0
    /\ im' = [im EXCEPT !.starting = @ - 1,
                        !.is_active = TRUE,
                        !.stop_flag = FALSE,
                        !.listeners = Append(@, NewListener)]
    /\ UNCHANGED lastOp
    /\ MonitorUnchanged

\* input_monitor.rs 119-123: listen() installs the callback and blocks for the
\* life of the process, or fails and clears is_active
ListenBegins(i, os_ok) ==
    /\ i \in 1..Len(im.listeners)
    /\ im.listeners[i].state = "starting"
    /\ im' = [im EXCEPT !.listeners[i].state =
                            IF os_ok THEN "listening" ELSE "dead",
                        !.is_active = IF os_ok THEN @ ELSE FALSE]
    /\ UNCHANGED lastOp
    /\ MonitorUnchanged

\* input_monitor.rs 134-137, 146-149: stop, stop_quick_switch
StopQuickSwitch ==
    /\ im' = [im EXCEPT !.stop_flag = TRUE,
                        !.is_active = FALSE,
                        !.listeners = [i \in DOMAIN @ |->
                                          [@[i] EXCEPT !.ended = TRUE]]]
    /\ lastOp' = Op("stop_quick_switch", Len(im.listeners), TRUE, 0)
    /\ MonitorUnchanged

\* The user presses or releases a key; the system hands the event to every
\* installed callback
MonitorKey(k) ==
    /\ \A i \in DOMAIN im.listeners : im.listeners[i].pending = None
    /\ keys' = [keys EXCEPT ![k] = ~@]
    /\ hk' = [hk EXCEPT !.unreleased = @ /\ hotkey_active /\ ModsHeld(keys')]
    /\ im' = [im EXCEPT !.listeners = [i \in DOMAIN @ |->
                  IF @[i].state = "listening"
                  THEN [@[i] EXCEPT !.pending =
                                       Some([press |-> keys'[k], key |-> k])]
                  ELSE @[i]]]
    /\ UNCHANGED <<items, now, lastOp, tableVars, watcherVars, hotkey_active,
                   selected_item, registered, loop, main, hide_tasks,
                   panel_visible, panel_key, is_hiding, frontmost,
                   previous_app, bundle_id, main_queue, tasks, ph>>

\* input_monitor.rs 76, 88, 93, 102, 107: app.emit by listener i
MonitorEmit(m, i, name) ==
    [m EXCEPT !.log = [by |-> i, name |-> name, n |-> 1 - @.n]]

\* input_monitor.rs 89, 94, 103, 108: a confirm clears is_active, and nothing
\* else
MonitorConfirm(m, i) ==
    [MonitorEmit(m, i, "quick-switch-confirm") EXCEPT
        !.is_active = FALSE,
        !.listeners[i].ended = TRUE]

\* input_monitor.rs 55-117: the callback of listener i on one key event
MonitorCallback(m, i, e) ==
    IF m.stop_flag THEN m
    ELSE IF e.press
    THEN CASE e.key = "cmd" -> [m EXCEPT !.listeners[i].cmd_held = TRUE]
           [] e.key = "shift" -> [m EXCEPT !.listeners[i].shift_held = TRUE]
           [] OTHER ->
                IF m.listeners[i].cmd_held /\ m.listeners[i].shift_held
                THEN MonitorEmit(m, i, "quick-switch-cycle")
                ELSE m
    ELSE CASE e.key = "cmd" ->
                MonitorConfirm([m EXCEPT !.listeners[i].cmd_held = FALSE], i)
           [] e.key = "shift" ->
                MonitorConfirm([m EXCEPT !.listeners[i].shift_held = FALSE],
                               i)
           [] OTHER -> m

ListenerHandles(i) ==
    /\ i \in 1..Len(im.listeners)
    /\ im.listeners[i].pending # None
    /\ im' = MonitorCallback([im EXCEPT !.listeners[i].pending = None], i,
                             im.listeners[i].pending[1])
    /\ UNCHANGED lastOp
    /\ MonitorUnchanged

\* Listener i emits an event in this step
Emits(i) == im'.log # im.log /\ im'.log.by = i

(***************************************************************************)
\* lib.rs 58-92: the state after setup() over the database file `rows`, in a
\* build whose foreign-key setting is one of fks
Setup(rows, fks) ==
    /\ items = rows
    /\ collections = {}
    /\ tags = {}
    /\ item_tags = {}
    /\ foreign_keys \in fks
    /\ last_hash \in get_last_hash(rows)
    /\ clip_text = None
    /\ clip_image = None
    /\ now = StartTime
    /\ next_uuid = 1
    /\ settings = [history_limit |-> PollLimit, auto_paste |-> TRUE,
                   sticky_mode |-> FALSE, excluded_apps |-> <<>>]
    /\ poll = [p \in Pollers |-> Idle]
    /\ emitted = <<>>
    /\ hotkey_active = FALSE
    /\ selected_item = None
    /\ registered = TRUE
    /\ keys = NoKeys
    /\ loop = LoopStart
    /\ main = MainIdle
    /\ hide_tasks = 0
    /\ recent = <<>>
    /\ lastOp = Op("setup", 0, TRUE, 0)
    /\ hk = NoSessions
    /\ panel_visible = FALSE
    /\ panel_key = FALSE
    /\ is_hiding = FALSE
    /\ frontmost = Some(OtherApp)
    /\ previous_app = None
    /\ bundle_id = None
    /\ main_queue = <<>>
    /\ tasks = [t \in Tasks |-> NoTask]
    /\ im = NoMonitor
    /\ ph = NoPanelHistory

Quiet == \A p \in Pollers : poll[p].pc = "idle"

\* First run: the database is new
Init == Setup({}, {TRUE})

\* The frontend awaits each command before it sends the next one
Next ==
    \/ Quiet /\ SetClipboard(Texts, Images)
    \/ Quiet /\ PollReadText(1)
    \/ PollStep(1)
    \/ Quiet /\ \E id \in OpIds : DeleteItem(id)
    \/ Quiet /\ PinItem(1)
    \/ Quiet /\ UnpinItem(1)
    \/ Quiet /\ ClearHistory

Spec == Init /\ [][Next]_vars

\* Two invocations of check_clipboard run at once
NextConc ==
    \/ Quiet /\ SetClipboard(FewTexts, {})
    \/ \E p \in Pollers : PollReadText(p)
    \/ \E p \in Pollers : PollStep(p)

SpecConc == Init /\ [][NextConc]_vars

\* A later run: the database holds PollLimit items
InitFull == Setup(FullStore, {TRUE})

NextRetention ==
    \/ Quiet /\ SetClipboard(FewTexts, {})
    \/ Quiet /\ PollReadText(1)
    \/ PollStep(1)
    \/ Quiet /\ DeleteItem(1)
    \/ Quiet /\ PinItem(OldestId)
    \/ Quiet /\ UnpinItem(OldestId)
    \/ Quiet /\ UpdateSettings

SpecRetention == InitFull /\ [][NextRetention]_vars

\* The store's operations on items created at chosen instants
NextStore ==
    \/ \E id \in ItemIds, t \in CreatedTimes : InsertItem(id, t)
    \/ \E id \in ItemIds : DeleteItem(id)
    \/ \E id \in ItemIds : PinItem(id)
    \/ \E id \in ItemIds : UnpinItem(id)
    \/ ClearHistory
    \/ \E n \in Limits : EnforceLimit(n)

SpecStore == Init /\ [][NextStore]_vars

\* Every operation of the store, in either build
InitDb == Setup({}, BOOLEAN)

NextDb ==
    \/ \E id \in DbIds : InsertItem(id, StartTime)
    \/ \E id \in DbIds : DeleteItem(id)
    \/ \E id \in DbIds : PinItem(id)
    \/ \E id \in DbIds : UnpinItem(id)
    \/ ClearHistory
    \/ \E n \in {0, 1} : EnforceLimit(n)
    \/ CleanupExpired
    \/ \E id \in FiledIds, e \in Expirations : SetItemExpiration(id, e)
    \/ \E id \in FiledIds, c \in CollectionIds :
            MoveItemToCollection(id, Some(c))
    \/ \E id \in FiledIds : MoveItemToCollection(id, None)
    \/ \E c \in CollectionIds, n \in CollectionNames : CreateCollection(c, n)
    \/ \E c \in CollectionIds, n \in CollectionNames : UpdateCollection(c, n)
    \/ \E c \in CollectionIds : DeleteCollection(c)
    \/ \E t \in TagIds : CreateTag(t)
    \/ \E id \in FiledIds, t \in TagIds : AddTagToItem(id, t)
    \/ \E id \in FiledIds, t \in TagIds : RemoveTagFromItem(id, t)

SpecDb == InitDb /\ [][NextDb]_vars

\* The store's listing over items created at chosen instants, pinned and
\* filed
NextList ==
    \/ \E id \in ListIds, t \in CreatedTimes : InsertItem(id, t)
    \/ \E id \in ListIds : PinItem(id)
    \/ \E id \in ListIds : UnpinItem(id)
    \/ \E id \in FiledIds : MoveItemToCollection(id, Some("c1"))
    \/ \E l \in PageSizes, o \in Offsets, q \in Searches,
          c \in CollectionFilters : GetItems(l, o, q, c)

SpecList == Init /\ [][NextList]_vars

\* Items are filed in two collections, and the collections are deleted
NextShelf ==
    \/ \E id \in ListIds : InsertItem(id, StartTime)
    \/ \E id \in ListIds : PinItem(id)
    \/ \E id \in ListIds, c \in ShelfIds : MoveItemToCollection(id, Some(c))
    \/ \E c \in ShelfIds : CreateCollection(c, "Work")
    \/ \E c \in ShelfIds : DeleteCollection(c)

SpecShelf == InitDb /\ [][NextShelf]_vars

\* Every operation of the store over a connection that enforces foreign
\* keys.  Database::new sets no pragma (database.rs 38-47), so enforcement is
\* what the linked SQLite starts with; the crate's build settings decide
\* that, and the associations are specified as cascade-deleted.
EnforcedForeignKeys == {TRUE}

InitLinks == Setup({}, EnforcedForeignKeys)

SpecLinks == InitLinks /\ [][NextDb]_vars

\* The watcher polls while the user changes the frontmost application and
\* the exclusion list between polls
NextExclusion ==
    \/ Quiet /\ SetClipboard(FewTexts, {})
    \/ Quiet /\ PollReadText(1)
    \/ PollStep(1)
    \/ Quiet /\ \E a \in {OtherApp, Terminal} : FrontmostChanges(a)
    \/ Quiet /\ UpdateExcludedApps
    \/ Quiet /\ CheckAppExcluded

SpecExclusion == Init /\ [][NextExclusion]_vars

\* The watcher and the user's commands, with the application quit and
\* started again between commands
NextRestart ==
    \/ Quiet /\ SetClipboard(Texts, Images)
    \/ Quiet /\ PollReadText(1)
    \/ PollStep(1)
    \/ Quiet /\ \E id \in OpIds : DeleteItem(id)
    \/ Quiet /\ ClearHistory
    \/ Quiet /\ Restart

\* What an earlier run left in the database: "b" captured first, then "abcd"
EarlierStore ==
    {ItemRow(NewItem("text", [content |-> <<98>>], compute_hash(<<98>>), -2,
                     StartTime - 2)),
     ItemRow(NewItem("text", [content |-> <<97, 98, 99, 100>>],
                     compute_hash(<<97, 98, 99, 100>>), -1, StartTime - 1))}

InitEarlier == Setup(EarlierStore, {TRUE})

SpecRestart == InitEarlier /\ [][NextRestart]_vars

\* The quick-switch listener alone: the hotkey handler starts it, the frontend
\* stops it, the user works the three keys of the hotkey
NextMonitor ==
    \/ StartQuickSwitchLoad
    \/ StartQuickSwitchStore
    \/ \E i \in 1..MaxListeners, os_ok \in BOOLEAN : ListenBegins(i, os_ok)
    \/ StopQuickSwitch
    \/ \E k \in MonitorKeys : MonitorKey(k)
    \/ \E i \in 1..MaxListeners : ListenerHandles(i)

SpecMonitor == Init /\ [][NextMonitor]_vars

\* The polling loop and the V key: the mode is entered and left by the
\* frontend's commands and by the loop itself, the user works Cmd and V
NextCycle ==
    \/ \E k \in {"cmd", "v"} : KeyChange(k)
    \/ EnterHotkeyMode
    \/ HideWindowCommand
    \/ HideWindowTask
    \/ LoopTick
    \/ LoopReadKeys
    \/ LoopReadFlags
    \/ LoopRecheck
    \/ LoopReleaseExit
    \/ LoopReleaseTake

SpecCycle == Init /\ [][NextCycle]_vars

\* The polling loop and the registration of the global hotkey: the mode is
\* entered and left, the user holds and releases Cmd, the frontend registers
\* the hotkey anew
LoopStep ==
    \/ LoopTick
    \/ LoopReadKeys
    \/ LoopReadFlags
    \/ LoopRecheck
    \/ LoopReleaseExit
    \/ LoopReleaseTake

NextRegister ==
    \/ KeyChange("cmd")
    \/ EnterHotkeyMode
    \/ HideWindowCommand
    \/ HideWindowTask
    \/ RegisterHotkey
    \/ LoopStep

\* lib.rs 114-116: the loop runs for the life of the process, one tick every
\* 30 ms
SpecRegister == Init /\ [][NextRegister]_vars /\ WF_vars(LoopStep)

\* detect_content_type over the classified texts
NextClassify == \E text \in ClassifiedTexts : DetectContentType(text)

SpecClassify == Init /\ [][NextClassify]_vars

\* create_text_preview over the texts around the limit
NextPreview == \E text \in PreviewedTexts : CreateTextPreview(text)

SpecPreview == Init /\ [][NextPreview]_vars

\* The polling thread, the main thread's commands, the keyboard and the
\* spawned tasks run at once
NextHotkey ==
    \/ \E k \in {"cmd", "shift", "esc"} : KeyChange(k)
    \/ EnterHotkeyMode
    \/ ExitHotkeyModeExit
    \/ ExitHotkeyModeTake
    \/ SetSelectedItem(1)
    \/ HideWindowTask
    \/ HideWindowCommand
    \/ LoopTick
    \/ LoopReadKeys
    \/ LoopEscExit
    \/ LoopEscTake
    \/ LoopReadFlags
    \/ LoopRecheck
    \/ LoopReleaseExit
    \/ LoopReleaseTake
    \/ LoopGraceEsc
    \/ LoopGraceEscExit
    \/ LoopGraceEscTake

SpecHotkey == Init /\ [][NextHotkey]_vars

\* The store of the panel's runs: a captured text and a captured image
PanelStore ==
    {ItemRow(NewItem("text", [content |-> txt], compute_hash(txt), 1,
                     StartTime - 2)) : txt \in {<<97, 98, 99, 100>>}}
    \cup {ItemRow(NewItem("image", [image |-> img],
                          compute_hash_bytes(img.rgba), 2, StartTime - 1)) :
             img \in Images}

InitPanel == Setup(PanelStore, {TRUE})

\* The panel and the focus slot: the commands, the shortcut, the main
\* thread with the delegate's listener, the user's focus changes and the
\* hotkey mode
NextPanel ==
    \/ \E t \in Tasks :
          \/ ShowWindow(t)
          \/ HideWindow(t)
          \/ ShortcutPressed(t)
          \/ TaskCapture(t)
          \/ TaskShow(t)
          \/ TaskExit(t)
          \/ TaskSetHiding(t)
          \/ TaskOrderOut(t)
          \/ TaskClearHiding(t)
          \/ TaskRestore(t)
          \/ TaskVisible(t)
          \/ ShortcutOpening(t)
          \/ TaskReturn(t)
    \/ MainShow
    \/ MainOrderOut
    \/ MainResign
    \/ DelegateGuard
    \/ DelegateMode
    \/ DelegateSticky
    \/ DelegateHide
    \/ FocusLoss
    \/ UpdatePreferences("sticky_mode")
    \/ EnterHotkeyMode

SpecPanel == InitPanel /\ [][NextPanel]_vars

\* paste_item, one command at a time, with show_window, the main thread and
\* the paste helper's slot
NextPaste ==
    \/ ShowWindow(1)
    \/ \E id \in PasteIds : PasteItem(1, id)
    \/ TaskCapture(1)
    \/ TaskShow(1)
    \/ TaskExit(1)
    \/ TaskSetHiding(1)
    \/ TaskOrderOut(1)
    \/ TaskClearHiding(1)
    \/ TaskRestore(1)
    \/ PasteLookup(1)
    \/ PasteWrite(1)
    \/ PasteGetApp(1)
    \/ PasteActivate(1)
    \/ PasteKeystroke(1)
    \/ TaskReturn(1)
    \/ MainShow
    \/ MainOrderOut
    \/ MainResign
    \/ DelegateGuard
    \/ DelegateMode
    \/ DelegateSticky
    \/ DelegateHide
    \/ SavePreviousApp
    \/ UpdatePreferences("auto_paste")
    \/ EnterHotkeyMode

SpecPaste == InitPanel /\ [][NextPaste]_vars

\* Pasting and polling in turn, over a store an earlier run left: an image
\* item, then "b", then "abcd"; nothing else writes to the clipboard
PastedStore ==
    EarlierStore \cup
    {ItemRow(NewItem("image", [image |-> img], compute_hash_bytes(img.rgba),
                     -3, StartTime - 3)) : img \in Images}

InitPasted == Setup(PastedStore, {TRUE})

NoTaskRuns == \A t \in Tasks : tasks[t].kind = "none"

NextPasted ==
    \/ NoTaskRuns /\ SavePreviousApp
    \/ Quiet /\ \E id \in {-3, -2, -1} : PasteItem(1, id)
    \/ PasteLookup(1)
    \/ PasteWrite(1)
    \/ TaskExit(1)
    \/ TaskSetHiding(1)
    \/ TaskOrderOut(1)
    \/ TaskClearHiding(1)
    \/ TaskRestore(1)
    \/ PasteGetApp(1)
    \/ PasteActivate(1)
    \/ PasteKeystroke(1)
    \/ TaskReturn(1)
    \/ MainOrderOut
    \/ NoTaskRuns /\ PollReadText(1)
    \/ PollStep(1)

SpecPasted == InitPasted /\ [][NextPasted]_vars

\* hide_window, toggle_window from the shortcut and paste_item, one command
\* at a time, with the main thread's queue and the frontend's
\* enter_hotkey_mode running beside every step of the command
NextHide ==
    \/ ShowWindow(1)
    \/ HideWindow(1)
    \/ ShortcutPressed(1)
    \/ \E id \in PasteIds : PasteItem(1, id)
    \/ ShortcutOpening(1)
    \/ TaskVisible(1)
    \/ TaskCapture(1)
    \/ TaskShow(1)
    \/ TaskExit(1)
    \/ TaskSetHiding(1)
    \/ TaskOrderOut(1)
    \/ TaskClearHiding(1)
    \/ TaskRestore(1)
    \/ PasteLookup(1)
    \/ PasteWrite(1)
    \/ PasteGetApp(1)
    \/ PasteActivate(1)
    \/ PasteKeystroke(1)
    \/ TaskReturn(1)
    \/ MainShow
    \/ MainOrderOut
    \/ SavePreviousApp
    \/ UpdatePreferences("auto_paste")
    \/ EnterHotkeyMode

SpecHide == InitPanel /\ [][NextHide]_vars

(***************************************************************************)
(* Properties.                                                             *)
(***************************************************************************)
\* C1: for a non-empty payload that the first of two successive polls finds
\* new, with no clipboard change between the polls and no storage failure
\* in either, the first poll inserts exactly one item and emits exactly one
\* clipboard-changed notification and the second poll returns nothing.
C1_TwoPollsOneItem ==
    [][\A p \in Pollers :
         (/\ poll[p].pc # "idle" /\ poll'[p].pc = "idle"
          /\ recent # <<>> /\ recent' # <<>>
          /\ recent[1].payload /\ recent[1].fresh
          /\ recent[1].res # "Err" /\ recent'[1].res # "Err")
         => /\ recent[1].ins = 1 /\ recent[1].ev = 1
            /\ recent'[1].res = "None"
            /\ recent'[1].ins = 0 /\ recent'[1].ev = 0]_vars

\* C2: of the check_clipboard invocations that run at once on one clipboard
\* change at most one passes the dedup check, at most one inserts an item
\* and at most one goes on to emit the notification.
C2_SingleFlight ==
    LET done == IF recent = <<>> THEN [ins |-> 0, ev |-> 0] ELSE recent[1]
        inserting == {p \in Pollers : poll[p].ins = 1}
        emitting == {p \in Pollers : poll[p].pc \in {"set_hash", "emit"}}
    IN  /\ Cardinality({p \in Pollers : poll[p].fresh}) <= 1
        /\ done.ins + Cardinality(inserting) <= 1
        /\ done.ev + Cardinality(emitting) <= 1

\* C3: a successful enforce_limit(N) leaves at most N non-pinned items, the
\* survivors are N most recent by createdAt of the non-pinned items present
\* before the call (all of them when there were fewer), and every item that
\* was pinned before the call is still present.
C3_EnforceLimitKeepsNewest ==
    [][(lastOp'.op = "enforce_limit" /\ lastOp'.ok) =>
         LET n == lastOp'.arg
             before == {r \in items : ~IsPinned(r)}
             after == {r \in items' : ~IsPinned(r)}
         IN  /\ Cardinality(after) <= n
             /\ Cardinality(after) = Min(n, Cardinality(before))
             /\ after \subseteq before
             /\ \A d \in before \ after, k \in after :
                   parse_from_rfc3339(d.created_at)
                        <= parse_from_rfc3339(k.created_at)
             /\ {r \in items : IsPinned(r)} \subseteq items']_vars

\* C3 witness: an enforce_limit(N), N > 0, has deleted items from a store
\* that held more than N non-pinned items; a non-pinned item of the later
\* instant and a pinned item of the earlier instant are still there.
C3_Witness ==
    /\ lastOp.op = "enforce_limit" /\ lastOp.ok
    /\ lastOp.arg > 0 /\ lastOp.removed > 0
    /\ Cardinality(Unpinned(items)) = lastOp.arg
    /\ \E k \in Unpinned(items) : k.created_at = to_rfc3339(StartTime + 1)
    /\ \E k \in Pinned(items) : k.created_at = to_rfc3339(StartTime)

\* C4: a successful clear_history deletes every item that is not pinned and
\* no item that is pinned.
C4_ClearHistoryKeepsPinned ==
    [][(lastOp'.op = "clear_history" /\ lastOp'.ok) =>
         items' = {r \in items : IsPinned(r)}]_vars

\* C4 witness: clear_history has deleted items and left pinned ones, one of
\* which had been unpinned and pinned again.
C4_Witness ==
    /\ lastOp.op = "clear_history" /\ lastOp.ok
    /\ lastOp.removed > 0
    /\ Cardinality(items) >= 2
    /\ \A r \in items : IsPinned(r)

\* C5: an item that is pinned leaves the store only in a delete_item on its
\* own id or in a cleanup_expired that reads the clock after the item's
\* expiresAt.
C5_PinnedLeavesOnlyByDeleteOrExpiry ==
    [][\A r \in items :
         (IsPinned(r) /\ r.id \notin Ids(items')) =>
            \/ lastOp'.op = "delete_item" /\ lastOp'.ok /\ lastOp'.arg = r.id
            \/ /\ lastOp'.op = "cleanup_expired" /\ lastOp'.ok
               /\ r.expires_at # None
               /\ parse_from_rfc3339(r.expires_at[1]) < now']_vars

\* C5 witness: an enforce_limit or a clear_history has deleted items and a
\* pinned item, tagged and with an expiry, is still in the store.
C5_Witness ==
    /\ lastOp.op \in {"enforce_limit", "clear_history"} /\ lastOp.ok
    /\ lastOp.removed > 0
    /\ \E r \in items :
         /\ IsPinned(r) /\ r.expires_at # None
         /\ \E l \in item_tags : l.item_id = r.id

\* C6: when a poll has just returned the item it captured, the store holds
\* at most 100 non-pinned items.
C6_CaptureLeavesAtMostPollLimit ==
    (/\ Quiet /\ lastOp.op = "check_clipboard" /\ lastOp.ok
     /\ recent # <<>> /\ recent[1].res = "Some")
    => Cardinality({r \in items : ~IsPinned(r)}) <= PollLimit

\* C6 witness: a poll has just captured an item into a store that holds a
\* pinned item and 100 non-pinned ones while the configured history limit is
\* greater than 100.
C6_Witness ==
    /\ Quiet /\ lastOp.op = "check_clipboard" /\ lastOp.ok
    /\ recent # <<>> /\ recent[1].res = "Some"
    /\ Cardinality(Unpinned(items)) = PollLimit
    /\ Pinned(items) # {}
    /\ settings.history_limit > PollLimit

\* C7: last_hash changes only to the hash of an invocation whose insert_item
\* has succeeded; a step in which insert_item fails returns an error and
\* leaves last_hash, the store and the notifications as they were.
C7_HashOnlyAfterInsert ==
    [][/\ last_hash' # last_hash =>
            \E p \in Pollers : poll[p].ins = 1 /\ last_hash' = Some(poll[p].hash)
       /\ \A p \in Pollers :
            (poll[p].pc = "insert" /\ poll'[p].pc = "idle") =>
                /\ recent' # <<>> /\ recent'[1].res = "Err"
                /\ last_hash' = last_hash
                /\ items' = items
                /\ emitted' = emitted]_vars

\* C7 witness: after an earlier capture the clipboard changed and the poll's
\* insert_item failed; last_hash is still the hash of the earlier capture.
C7_Witness ==
    /\ Quiet /\ recent # <<>>
    /\ recent[1].res = "Err" /\ recent[1].fresh /\ recent[1].ins = 0
    /\ clip_text # None /\ clip_text[1] # <<>>
    /\ last_hash # None /\ last_hash # Some(compute_hash(clip_text[1]))
    /\ Cardinality(items) = 1 /\ Len(emitted) = 1

\* C8: while the clipboard offers non-empty text, no invocation examines the
\* image, and the item an invocation stores and announces is not an image
\* item and has the text as its content.
C8_TextBeforeImage ==
    (clip_text # None /\ clip_text[1] # <<>>) =>
        \A p \in Pollers :
            /\ poll[p].pc # "read_image"
            /\ poll[p].path = "text"
            /\ poll[p].pc \in {"insert", "enforce", "set_hash", "emit"} =>
                  /\ poll[p].item[1].content_type # "image"
                  /\ poll[p].item[1].content = clip_text[1]

\* C8 witness: the clipboard offers text and an image and the poll is about
\* to announce the text item it has stored.
C8_Witness ==
    /\ clip_image # None /\ clip_image[1].rgba # <<>>
    /\ clip_text # None /\ clip_text[1] # <<>>
    /\ poll[1].pc = "emit"
    /\ poll[1].item[1].content_type = "text"
    /\ \E r \in items : r.id = poll[1].item[1].id /\ r.content_type = "text"

\* C9: once a cancel of an Active session has been processed while the
\* modifiers were still held since the session began, the mode is Idle for
\* that session, the selected-item slot was emptied, and no paste is spawned
\* for that session afterwards.
C9_CancelWins ==
    /\ \A c \in hk.cancelled : c.mode_idle /\ c.slot_empty
    /\ \A i \in 1..Len(hk.spawned) :
          hk.spawned[i].kind = "paste" => ~hk.spawned[i].after_cancel

\* C10: when the release branch spawns its task the session it acts for is
\* no longer Active, and the release branch spawns at most one paste or hide
\* for one session.
C10_OneSpawnPerRelease ==
    /\ loop.pc = "rel_take" => ~(hotkey_active /\ hk.session = loop.session)
    /\ \A s \in 1..MaxSessions :
          Cardinality({i \in 1..Len(hk.spawned) :
                          /\ hk.spawned[i].origin = "release"
                          /\ hk.spawned[i].session = s}) <= 1

\* C10 witness: the release branch has spawned the paste of the selected
\* item, and the loop has ticked again with the modifiers still released.
C10_Witness ==
    /\ \E i \in 1..Len(hk.spawned) :
          hk.spawned[i].origin = "release" /\ hk.spawned[i].kind = "paste"
    /\ ~ModsHeld(keys)
    /\ loop.pc = "sleep" /\ ~loop.was_active

\* C11: a paste spawned by the release branch is for an item that
\* set_selected_item stored while the session that is ending was Active; a
\* selection stored in an earlier session or while the mode was Idle is
\* never pasted.
C11_PasteOnlyThisSessionsSelection ==
    \A i \in 1..Len(hk.spawned) :
        (hk.spawned[i].kind = "paste" /\ hk.spawned[i].origin = "release")
            => hk.spawned[i].selected_in = hk.spawned[i].session

\* C12: the listener never hides the panel while the hotkey mode is Active:
\* a callback that finds the mode Active returns from that check with the
\* panel as visible as it was and "panel-hidden" not emitted, and the hide
\* path is never taken with the mode Active.
C12_ActiveSuppressesAutoHide ==
    [][/\ (main.pc = "dl_mode" /\ hotkey_active /\ main'.pc # "dl_mode")
            => /\ main'.pc = "idle"
               /\ ph'.event = ph.event
               /\ ~main.in_hide => panel_visible' = panel_visible
       /\ (main.pc = "dl_hide" /\ main'.pc # "dl_hide") => ~hotkey_active
      ]_vars

\* C12 witness: the panel lost key status to another application while the
\* mode was Active, the listener has returned, and the panel is visible and
\* key again.
C12_Witness ==
    /\ ph.callback = [from |-> "mode", in_hide |-> FALSE]
    /\ main.pc = "idle"
    /\ hotkey_active
    /\ panel_visible /\ panel_key

\* C13: the shortcut handler's signal and its action agree: a press that
\* found the panel hidden, and signalled a session start, opens the panel,
\* and a press that found it visible, and signalled nothing, takes the
\* closing branch, which sets the mode Idle and hides the panel.
C13_PressOpensOrHides ==
    [][\A t \in Tasks :
          (tasks[t].kind = "shortcut" /\ tasks[t].pc = "visible"
              /\ tasks'[t].pc # "visible")
            => tasks'[t].pc = IF tasks[t].opening THEN "capture" ELSE "exit"
      ]_vars

\* C14: the focus-loss callback raised inside a programmatic order_out
\* (hide_window, the closing branch of toggle_window) finds the
\* hide-in-progress flag set: it never gets past the flag, so it neither
\* hides the panel nor emits "panel-hidden".
C14_GuardCoversOrderOut ==
    /\ (main.pc \in {"dl_mode", "dl_sticky", "dl_hide"}) => ~main.in_hide
    /\ ph.callback.in_hide => ph.callback.from = "guard"

\* C15: the listener leaves the focus slot alone and activates no captured
\* application, and the application a capture stored is activated by
\* restore at most once, also when the listener runs inside the order_out of
\* the programmatic hide.
C15_HidePathNeverRestores ==
    [][/\ ph'.since_capture <= 1
       /\ (main.pc \in {"dl_guard", "dl_mode", "dl_sticky", "dl_hide"}
              /\ main' # main)
            => /\ previous_app' = previous_app
               /\ ph'.since_capture = ph.since_capture
               /\ frontmost' \in {frontmost, Some(Yoink)}
      ]_vars

\* C15 witness: after a capture, a programmatic hide has restored the
\* captured application, and the listener raised by its order_out took the
\* hide path.
C15_Witness ==
    /\ ph.callback = [from |-> "hide", in_hide |-> TRUE]
    /\ ph.since_capture = 1
    /\ previous_app = None
    /\ frontmost = Some(OtherApp)
    /\ \A t \in Tasks : tasks[t].pc \in {"idle", "ret"}

\* C16: focus restoration is one-shot: once a command has restored, the
\* focus slot is empty, and between two captures the captured application
\* is activated at most once, by restore and by the paste-back alike.
C16_RestoreOneShot ==
    /\ \A t \in Tasks : tasks[t].hid => previous_app = None
    /\ ph.since_capture <= 1
    /\ ph.since_save <= 1

\* C17: neither focus slot ever holds this utility itself: a capture made
\* while the utility is frontmost leaves the slot as it was.
C17_CaptureSkipsSelf ==
    /\ previous_app # Some(Yoink)
    /\ bundle_id # Some(Yoink)

\* C18: paste_item with an id that is not in the store ends at the lookup:
\* it returns Ok(()) when the store answered, and it leaves the clipboard,
\* the panel, the hotkey mode, the hide flag, both focus slots, the frontmost
\* application and the main thread's queue as they were, with no keystroke.
C18_AbsentItemIsNoOp ==
    [][\A t \in Tasks :
          (/\ tasks[t].pc = "lookup"
           /\ get_item(items, tasks[t].arg) = None
           /\ tasks'[t] # tasks[t])
            => /\ tasks'[t].pc = "ret"
               /\ lastOp'.ok => tasks'[t].result = "Ok"
               /\ tasks'[t].keystroke = None /\ tasks'[t].acts = <<>>
               /\ UNCHANGED <<clip_text, clip_image, panel_visible, panel_key,
                              hotkey_active, is_hiding, previous_app,
                              bundle_id, frontmost, main_queue, items>>
      ]_vars

\* C18 witness: paste_item of an id that is not in the store has returned
\* Ok(()) while the panel is up, the mode Active and the focus slot filled.
C18_Witness ==
    \E t \in Tasks :
        /\ tasks[t].kind = "paste" /\ tasks[t].pc = "ret"
        /\ get_item(items, tasks[t].arg) = None
        /\ tasks[t].result = "Ok"
        /\ panel_visible /\ hotkey_active /\ previous_app # None

\* C19: a paste_item that read autoPaste disabled activates no application
\* and simulates no keystroke; when it has returned Ok(()) it has written
\* the item to the clipboard and gone through hide_window.
C19_NoAutoPasteOnlyHides ==
    \A t \in Tasks :
        (tasks[t].kind = "paste" /\ tasks[t].item # None /\ ~tasks[t].auto)
            => /\ tasks[t].acts = <<>>
               /\ tasks[t].keystroke = None
               /\ (tasks[t].pc = "ret" /\ tasks[t].result = "Ok")
                    => tasks[t].hid /\ tasks[t].wrote # None

C21_PasteBackFailureSwallowed ==
    [][\A t \in Tasks :
          (/\ tasks[t].kind = "paste"
           /\ tasks'[t].pc = "ret"
           /\ tasks'[t].keystroke = None
           /\ tasks[t].pc \in {"activate", "keystroke"})
              => /\ tasks'[t].result = "Ok"
                 /\ clip_text' # None
                 /\ clip_text' = paste_text(tasks'[t].item[1])]_vars

\* C21 witness: a paste_item of the image item has activated the previous
\* application, the keystroke has failed, and the command has returned Ok
\* with the item's preview on the clipboard.
C21_Witness ==
    \E t \in Tasks :
        /\ tasks[t].kind = "paste" /\ tasks[t].pc = "ret"
        /\ tasks[t].result = "Ok"
        /\ tasks[t].keystroke = None
        /\ tasks[t].acts # <<>>
        /\ tasks[t].acts[Len(tasks[t].acts)] = "paste_back"
        /\ tasks[t].item # None
        /\ tasks[t].item[1].content_type = "image"
        /\ clip_text = Some(tasks[t].item[1].preview)

\* C22: a cancel that arrives during the grace period wins.  When the loop
\* ends the grace period with Escape down or with the mode Idle it does not
\* enter the release branch, and a paste is spawned only by the release
\* branch, which is entered only from the re-check.
C22_GraceCancelWins ==
    [][/\ (loop.pc = "grace" /\ loop'.pc # "grace"
              /\ (keys.esc \/ ~hotkey_active))
            => loop'.pc \in {"sleep", "grace_esc"}
       /\ (loop'.pc = "rel_exit" /\ loop.pc # "rel_exit")
            => loop.pc = "grace" /\ hotkey_active /\ ~keys.esc
       /\ (loop'.pc = "rel_take" /\ loop.pc # "rel_take")
            => loop.pc = "rel_exit"
       /\ (Len(hk'.spawned) > Len(hk.spawned)
              /\ hk'.spawned[Len(hk'.spawned)].kind = "paste")
            => loop.pc = "rel_take"]_vars

\* C22 witness: with an item selected and the modifiers released the loop
\* has found Escape down at the end of the grace period and has spawned
\* nothing.
C22_Witness ==
    /\ loop.pc = "grace_esc"
    /\ hotkey_active
    /\ selected_item # None
    /\ hk.spawned = <<>>

\* C23: in every list get_items returns, whatever the store, the filters,
\* the limit and the offset, every pinned item precedes every non-pinned
\* item and each of the two groups is in descending createdAt order.
C23_ListPinnedFirstNewestFirst ==
    (lastOp.op = "get_items" /\ lastOp.ok) =>
        LET list == lastOp.removed
        IN  \A i, j \in 1..Len(list) :
                i < j => /\ list[j].is_pinned => list[i].is_pinned
                         /\ list[i].is_pinned = list[j].is_pinned
                              => list[i].created_at >= list[j].created_at

\* C23 witness: a list of three items, an older pinned one first, then two
\* non-pinned ones created half a second apart, the newer first.
C23_Witness ==
    /\ lastOp.op = "get_items" /\ lastOp.ok
    /\ Len(lastOp.removed) = 3
    /\ lastOp.removed[1].is_pinned
    /\ ~lastOp.removed[2].is_pinned
    /\ lastOp.removed[1].created_at < lastOp.removed[2].created_at
    /\ lastOp.removed[2].created_at > lastOp.removed[3].created_at

\* C24: a delete_collection that succeeds leaves every item that referred to
\* the collection in the store with collection_id None, changes no other
\* field of any item, deletes no item, and removes the collection (and no
\* other collection).
C24_DeleteCollectionUnfiles ==
    [][(lastOp'.op = "delete_collection" /\ lastOp'.ok) =>
         LET c == lastOp'.arg
         IN  /\ items' = {IF r.collection_id = Some(c)
                          THEN [r EXCEPT !.collection_id = None] ELSE r :
                              r \in items}
             /\ Ids(items') = Ids(items)
             /\ Cardinality(items') = Cardinality(items)
             /\ collections' = {x \in collections : x.id # c}]_vars

\* C24 witness: a collection that two items referred to has been deleted;
\* three items are in the store, one of them pinned, one still filed in the
\* other collection, and the other collection is still there.
C24_Witness ==
    /\ lastOp.op = "delete_collection" /\ lastOp.ok
    /\ lastOp.arg = "c1" /\ lastOp.removed = 2
    /\ Cardinality(items) = 3
    /\ \E r \in items : r.collection_id = Some("c2")
    /\ \E r \in items : r.collection_id = None /\ r.is_pinned = 1
    /\ {x.id : x \in collections} = {"c2"}

\* C25: add_tag_to_item on a pair that is already associated succeeds and
\* leaves that one association (so applied twice it succeeds both times and
\* one association is left); remove_tag_from_item of an association that
\* does not exist succeeds and changes nothing.  A storage error aside.
C25_TagOpsIdempotent ==
    [][/\ (lastOp'.op = "add_tag_to_item" /\ lastOp'.arg.error # "io") =>
            LET pair == [item_id |-> lastOp'.arg.item_id,
                         tag_id |-> lastOp'.arg.tag_id]
            IN  /\ lastOp'.ok => item_tags' = item_tags \cup {pair}
                /\ pair \in item_tags
                     => lastOp'.ok /\ item_tags' = item_tags
       /\ (lastOp'.op = "remove_tag_from_item" /\ lastOp'.arg.error # "io") =>
            LET pair == [item_id |-> lastOp'.arg.item_id,
                         tag_id |-> lastOp'.arg.tag_id]
            IN  /\ lastOp'.ok
                /\ pair \notin item_tags
                     => /\ item_tags' = item_tags
                        /\ UNCHANGED <<items, tags, collections>>]_vars

\* C25 witness: add_tag_to_item has succeeded on a pair that was already
\* associated, nothing was inserted, and the one association is there.
C25_Witness ==
    /\ lastOp.op = "add_tag_to_item" /\ lastOp.ok
    /\ lastOp.removed = 0
    /\ item_tags = {[item_id |-> lastOp.arg.item_id,
                     tag_id |-> lastOp.arg.tag_id]}

C27_ExcludedAppNotRecorded ==
    [][is_app_excluded(settings, frontmost)
         => items' = items /\ emitted' = emitted]_vars

\* C28: a cleanup_expired that succeeds deletes exactly the items whose
\* expiresAt is set and strictly earlier than the instant it read, keeps the
\* others, returns the number it deleted, and a second cleanup at the same
\* instant would delete nothing (and return 0).
C28_CleanupExpiredExact ==
    [][(lastOp'.op = "cleanup_expired" /\ lastOp'.ok) =>
         LET expired(r) == /\ r.expires_at # None
                           /\ parse_from_rfc3339(r.expires_at[1]) < now'
             again == cleanup_expired(items', to_rfc3339(now'))
         IN  /\ items' = {r \in items : ~expired(r)}
             /\ lastOp'.removed = Cardinality({r \in items : expired(r)})
             /\ again = items'
             /\ Cardinality(items' \ again) = 0]_vars

\* C28 witness: the clock has passed the expiry, cleanup_expired has deleted
\* the one expired item and returned 1, and the item without expiry is kept.
C28_Witness ==
    /\ lastOp.op = "cleanup_expired" /\ lastOp.ok
    /\ lastOp.removed = 1
    /\ now > ExpiryTime
    /\ items # {}
    /\ \A r \in items : r.expires_at = None

\* C29: every operation of the store is all-or-nothing: a step in which an
\* operation returns a storage error leaves the items, the collections, the
\* tags and the associations exactly as they were.
C29_FailureLeavesStoreUntouched ==
    [][~lastOp'.ok => UNCHANGED <<items, collections, tags, item_tags>>]_vars

\* The stored items with the greatest createdAt, as instants
NewestStored == {r \in items : \A y \in items :
                    parse_from_rfc3339(r.created_at)
                        >= parse_from_rfc3339(y.created_at)}

\* The first poll since the start is at its dedup check, the store is as the
\* start found it, and what the poll read is the content of the newest
\* stored item
FirstPollReadNewest(p) ==
    /\ poll[p].pc = "check"
    /\ recent # <<>> /\ recent[1].res = "Restart"
    /\ recent[1].store = items
    /\ \E r \in NewestStored :
         IF poll[p].path = "text"
         THEN r.content_type # "image" /\ r.content = poll[p].item[1].content
         ELSE /\ r.content_type = "image"
              /\ r.content = Base64Encode(poll[p].item[1].image.rgba)

C31_OneLiveListener ==
    [][\A i \in 1..MaxListeners :
          Emits(i) => /\ i = Len(im.listeners)
                      /\ ~im.listeners[i].ended]_vars

\* C32: the loop emits hotkey-cycle exactly on a tick that found the mode
\* Active and reads the V key down after the tick before read it up: not on
\* the first tick of an activation, where the key may still be held from the
\* activating press, not for a key that stays down, and not on a tick that
\* found the mode Idle
C32_CycleOncePerPress ==
    [][(hk'.cycles # hk.cycles)
          <=> /\ loop.pc = "keys" /\ loop'.pc # "keys"
              /\ loop.was_active
              /\ keys.v
              /\ hk.v_tick = "up"]_vars

\* A second press in one activation has been signalled: the key was held at
\* activation, released and pressed again
C32_Witness ==
    /\ hotkey_active
    /\ hk.cycles = 1
    /\ hk.v_tick = "down"
    /\ loop.pc = "flags"

\* The text is a path: it begins with "/", or its second and third bytes are
\* those of a drive prefix
PathLike(t) ==
    \/ StartsWith(t, <<47>>)
    \/ ByteLen(t) > 2 /\ SubSeq(as_bytes(t), 2, 3) = <<58, 92>>

UrlLike(t) ==
    \/ StartsWith(t, <<104,116,116,112,58,47,47>>)
    \/ StartsWith(t, <<104,116,116,112,115,58,47,47>>)
    \/ StartsWith(t, <<102,116,112,58,47,47>>)

\* The class the first matching rule gives the trimmed text
FirstMatch(t) ==
    IF PathLike(t)
    THEN IF \E i \in 1..Len(t) : t[i] = 10 THEN "files" ELSE "file"
    ELSE IF UrlLike(t) THEN "url"
    ELSE IF looks_like_code(t) THEN "code"
    ELSE "text"

\* C33: detect_content_type returns, for every text, the class of the first
\* rule its trimmed form matches in the order path, URL, code, text; the five
\* example texts are url, file, files, code and text
C33_ClassifiesByFirstMatch ==
    lastOp.op = "detect_content_type" =>
        /\ lastOp.removed = FirstMatch(Trim(lastOp.arg))
        /\ lastOp.arg = ExampleUrl => lastOp.removed = "url"
        /\ lastOp.arg = ExampleFile => lastOp.removed = "file"
        /\ lastOp.arg = ExampleFiles => lastOp.removed = "files"
        /\ lastOp.arg = ExampleCode => lastOp.removed = "code"
        /\ lastOp.arg = ExampleText => lastOp.removed = "text"

\* C34: create_text_preview returns the first 500 characters of the text
\* without their control characters other than newline and tab, followed by
\* the marker "..." exactly when the text has more than 500 characters
C34_PreviewMarksTruncation ==
    lastOp.op = "create_text_preview" =>
        LET text == lastOp.arg
            kept == FilterControl(SubSeq(text, 1, Min(PreviewChars, Len(text))))
        IN  lastOp.removed = IF Len(text) > PreviewChars
                             THEN kept \o <<46, 46, 46>> ELSE kept

\* C35: whenever a thread is about to take the selected-item slot (after a
\* modifier release, an Escape cancel, a grace-period cancel, or in
\* exit_hotkey_mode) it has called exit() first, and the mode is Idle unless
\* a later session has been entered since: the slot is never taken while the
\* session the thread ended is still Active
C35_ExitBeforeTake ==
    /\ loop.pc \in {"esc_take", "rel_take", "gesc_take"} =>
          /\ hk.exited.loop >= 0
          /\ hotkey_active => hk.session > hk.exited.loop
    /\ main.pc = "take" =>
          /\ hk.exited.main >= 0
          /\ hotkey_active => hk.session > hk.exited.main

\* After a release the loop is about to take a selected item for a paste,
\* and a new session has been entered since its exit()
C35_Witness ==
    /\ loop.pc = "rel_take"
    /\ selected_item # None
    /\ hotkey_active
    /\ hk.session > hk.exited.loop
    /\ hk.exited.loop >= 1

\* The hash of what poll p has read from the clipboard
HashRead(p) ==
    IF poll[p].path = "text" THEN compute_hash(poll[p].item[1].content)
    ELSE compute_hash_bytes(poll[p].item[1].image.rgba)

C37_LastHashIsLastInserted ==
    [][(poll[1].pc # "idle" /\ poll'[1].pc = "idle") =>
          IF recent'[1].ins = 1
          THEN last_hash' = Some(poll[1].item[1].hash)
          ELSE last_hash' = last_hash]_vars

\* What a tick does to the registration: the tick that finds the mode Active
\* after a tick that found it Idle leaves no registration, the tick that
\* finds it Idle after a tick that found it Active calls register, and every
\* other tick leaves the registration alone
TickRegisters ==
    (loop.pc = "sleep" /\ loop' # loop) =>
        IF hotkey_active /\ ~loop.was_active
        THEN ~registered' /\ hk'.held = 0
        ELSE IF ~hotkey_active /\ loop.was_active
        THEN (registered' /\ hk'.held = 1) \/ hk'.refused
        ELSE registered' = registered /\ hk'.held = hk.held

C39_PastedItemRecorded ==
    [][(/\ poll[1].pc = "check" /\ poll'[1] # poll[1]
        /\ poll[1].pasted # None /\ poll[1].pasted # last_hash)
          => poll'[1].pc = "insert"]_vars

\* C39: no step of paste_item changes the store or lastHash; so the first
\* poll after paste_item wrote to the clipboard goes on to record what it
\* read whenever the hash of that text differs from lastHash, and what it
\* inserts is a new item with the pasted text as its content
C39_PasteLeavesStoreAndHash ==
    [][/\ tasks' # tasks => (items' = items /\ last_hash' = last_hash)
       /\ (/\ poll[1].pc = "check" /\ poll'[1] # poll[1]
           /\ poll[1].pasted # None
           /\ last_hash # Some(compute_hash(clip_text[1])))
             => poll'[1].pc = "insert"
       /\ (/\ poll[1].pc = "insert" /\ poll'[1].pc = "enforce"
           /\ poll[1].pasted # None) =>
             \E r \in items' \ items :
                /\ items' = items \cup {r}
                /\ r.content = clip_text[1]
                /\ r.id \notin Ids(items)]_vars

\* A poll has recorded a second item with the content of the older item "b"
\* that was pasted
C39_Witness ==
    /\ poll[1].pc = "idle"
    /\ clip_text = Some(<<98>>)
    /\ \E r \in items : r.id > 0 /\ r.content = <<98>>
    /\ \E r \in items : r.id < 0 /\ r.content = <<98>>

\* Every programmatic hide leaves the mode Idle at the moment it completes
C40_IdleWhenHideCompletes ==
    [][\A t \in Tasks :
         (tasks[t].pc = "restore" /\ tasks'[t].pc # "restore")
            => ~hotkey_active']_vars

\* The steps of a hide that come after hotkey_state.exit(), up to the
\* return of the command
AfterExit(t) ==
    \/ tasks[t].pc \in {"set_hiding", "order_out", "clear_hiding", "restore"}
    \/ tasks[t].hid

\* C40: a hide_window, a closing toggle_window and the hide inside
\* paste_item have called hotkey_state.exit() before they queue order_out,
\* so from then until the command returns the mode is Idle, or Active only
\* because enter_hotkey_mode began a later session after that exit()
C40_ExitBeforeHide ==
    \A t \in Tasks :
       AfterExit(t) =>
          /\ tasks[t].exited >= 0
          /\ hotkey_active => hk.session > tasks[t].exited

\* A hide that began in an Active session has completed and the mode is Idle
C40_Witness ==
    /\ tasks[1].hid /\ tasks[1].pc = "ret"
    /\ tasks[1].exited > 0
    /\ ~hotkey_active /\ ~panel_visible

====
